---- MODULE Spec2Model ----
(***************************************************************************)
(* The per-service circuit breaker and the retrier (withRetry) of          *)
(* lib/core/circuitBreaker.ts.                                             *)
(*                                                                         *)
(* JavaScript runs withCircuitBreaker synchronously up to `await fn()`,    *)
(* and runs the code after the await as one uninterrupted continuation     *)
(* when fn's promise settles.  Each of the two pieces is one action here;  *)
(* other calls, admin operations and the passing of time interleave        *)
(* between them.  The registry `circuits` is a Map from service name to a  *)
(* CircuitState OBJECT: a call keeps the reference it got from getCircuit  *)
(* across the await, also when resetCircuit drops the Map entry meanwhile, *)
(* so the objects live in a heap (`objects`) and the Map and the calls     *)
(* hold object ids.                                                        *)
(*                                                                         *)
(* The option callbacks (shouldTrip, onStateChange, shouldRetry, onRetry)   *)
(* are taken to return normally.                                           *)
(*                                                                         *)
(* Specifications:                                                         *)
(*   Spec            calls with every combination of options on one        *)
(*                   service, overlapping calls, time                      *)
(*   SpecSingleTrial the same with halfOpenMaxAttempts left at its default *)
(*   SpecRegistry    two services and the admin operations (resetCircuit,  *)
(*                   resetAllCircuits, getCircuitStats), one set of        *)
(*                   options                                               *)
(*   SpecHooks       one service, calls that pass onStateChange and calls  *)
(*                   that do not                                           *)
(*   SpecFixedOptions concurrent calls on two services, all calls on a     *)
(*                   service passing the same options                      *)
(*   SpecRetry       one withRetry activation, every combination of its    *)
(*                   options, any outcomes of the operation, any jitter    *)
(*   SpecRetryFair   SpecRetry where the operation's promise settles and   *)
(*                   the backoff timer fires                               *)
(*   SpecBackoff     calculateBackoff for attempts 1, 2, ... with fixed    *)
(*                   baseDelayMs and maxDelayMs and any jitter             *)
(*   SpecClassify    isRetryableError applied to rejected values           *)
(*   SpecClient      the operations of a JiraClient or a ConfluenceClient  *)
(*                   made with the default options, one after the other:   *)
(*                   execute = withCircuitBreaker around withRetry around  *)
(*                   the operation, its rejection normalized               *)
(*   SpecNormalize   normalizeJiraError and normalizeConfluenceError       *)
(*                   applied to rejected values and to AppErrors           *)
(*   SpecTransition  handleJiraTransition: the client calls it makes       *)
(*   SpecFields      one FieldService instance: resolveFieldId and         *)
(*                   assertFieldId calls that follow or overlap each       *)
(*                   other, the listFields fetch under them, clearCache    *)
(*   SpecIssue       one IssueService: a createIssue or an updateIssue,    *)
(*                   the payload built across the resolveFieldId awaits    *)
(*   SpecCreate      one handleJiraCreate of the legacy create path: the   *)
(*                   attempts it makes as the server rejects fields        *)
(***************************************************************************)
EXTENDS Integers, Sequences, FiniteSets, TLC

(* ------------------------------ bounds -------------------------------- *)

\* calls that can be in flight at once
MaxCalls == 2
\* the clock stops after this many ticks
MaxClock == 3
\* cap of the (unbounded) failureCount
MaxFailures == 6
\* calls that can be in flight at once in SpecRegistry
MaxRegistryCalls == 1
\* attempts calculateBackoff is applied for
MaxBackoffAttempts == 5
\* onStateChange invocations followed in one behaviour
MaxNotified == 4
\* the values of options.maxAttempts: 0..MaxAttemptsOption
MaxAttemptsOption == 3
\* resolveFieldId / assertFieldId activations that can be in progress together
MaxResolutions == 2
\* resolveFieldId / assertFieldId calls followed in one behaviour
MaxFieldCalls == 2

(* ------------------------- program constants -------------------------- *)

DEFAULT_FAILURE_THRESHOLD == 5
DEFAULT_RESET_TIMEOUT_MS == 30000
DEFAULT_HALF_OPEN_MAX_ATTEMPTS == 1
DEFAULT_MAX_ATTEMPTS == 3
DEFAULT_BASE_DELAY_MS == 1000
DEFAULT_MAX_DELAY_MS == 30000

(* --------------------------- input domains ---------------------------- *)

Services == {"jira", "confluence"}
\* the service Spec and SpecSingleTrial call
CoreServices == {"jira"}
Calls == 1..MaxCalls

\* Date.now() advances in steps of one default reset window.
TickMs == DEFAULT_RESET_TIMEOUT_MS
Times == {t * TickMs : t \in 1..MaxClock}

\* what fn can resolve with, and what it can reject with
Values == {"ok", "recovered"}
FnErrors == {"ECONNRESET", "HTTP_400"}

\* the values of options.shouldTrip: the default () => true, and a
\* classifier such as isRetryableJiraError that trips on transport errors only
ShouldTripOptions == {"always", "retryable"}

Options ==
  [failureThreshold : {2, DEFAULT_FAILURE_THRESHOLD},
   resetTimeoutMs : {DEFAULT_RESET_TIMEOUT_MS, 2 * DEFAULT_RESET_TIMEOUT_MS},
   halfOpenMaxAttempts : {DEFAULT_HALF_OPEN_MAX_ATTEMPTS, 2},
   shouldTrip : ShouldTripOptions,
   onStateChange : {FALSE}]

\* the calls of SpecSingleTrial: halfOpenMaxAttempts is not passed
SingleTrialOptions ==
  {o \in Options : o.halfOpenMaxAttempts = DEFAULT_HALF_OPEN_MAX_ATTEMPTS}

\* the calls of SpecRegistry
RegistryOptions ==
  {o \in Options : /\ o.failureThreshold = 2
                   /\ o.resetTimeoutMs = DEFAULT_RESET_TIMEOUT_MS
                   /\ o.halfOpenMaxAttempts = DEFAULT_HALF_OPEN_MAX_ATTEMPTS
                   /\ o.shouldTrip = "always"}
RegistryCalls == 1..MaxRegistryCalls
RegistryValues == {"ok"}
RegistryErrors == {"ECONNRESET"}

DefaultOptions ==
  [failureThreshold |-> DEFAULT_FAILURE_THRESHOLD,
   resetTimeoutMs |-> DEFAULT_RESET_TIMEOUT_MS,
   halfOpenMaxAttempts |-> DEFAULT_HALF_OPEN_MAX_ATTEMPTS,
   shouldTrip |-> "always",
   onStateChange |-> FALSE]

\* the calls of SpecFixedOptions: every call on a service passes the same
\* options, a threshold of 2 on one service and the default on the other
FixedOptions(serviceName) ==
  [failureThreshold |-> IF serviceName = "jira" THEN 2 ELSE DEFAULT_FAILURE_THRESHOLD,
   resetTimeoutMs |-> DEFAULT_RESET_TIMEOUT_MS,
   halfOpenMaxAttempts |-> DEFAULT_HALF_OPEN_MAX_ATTEMPTS,
   shouldTrip |-> "retryable",
   onStateChange |-> FALSE]

\* the calls of SpecHooks: onStateChange passed (TRUE) or not
HookOptions ==
  [failureThreshold : {2},
   resetTimeoutMs : {DEFAULT_RESET_TIMEOUT_MS},
   halfOpenMaxAttempts : {DEFAULT_HALF_OPEN_MAX_ATTEMPTS},
   shouldTrip : {"retryable"},
   onStateChange : BOOLEAN]

(* ------------------------ error classification ------------------------ *)

\* statusCode === undefined (line 231): no status on the value
undefinedStatus == 0

\* the letters String.prototype.toLowerCase changes, and what it makes of them
UpperCase == <<"A", "B", "C", "D", "E", "F", "G", "H", "I", "J", "K", "L", "M", "N", "O", "P", "Q", "R", "S", "T", "U", "V", "W", "X", "Y", "Z">>
LowerCase == <<"a", "b", "c", "d", "e", "f", "g", "h", "i", "j", "k", "l", "m", "n", "o", "p", "q", "r", "s", "t", "u", "v", "w", "x", "y", "z">>

\* lines 215 and 221: the codes and the message parts of a network failure
networkCodes == {"ECONNRESET", "ECONNREFUSED", "ETIMEDOUT", "ENOTFOUND", "EAI_AGAIN"}
networkMessages == {
  <<"n", "e", "t", "w", "o", "r", "k", " ", "e", "r", "r", "o", "r">>,
  <<"s", "o", "c", "k", "e", "t", " ", "h", "a", "n", "g", " ", "u", "p">>,
  <<"c", "o", "n", "n", "e", "c", "t", "i", "o", "n", " ", "r", "e", "f", "u", "s", "e", "d">>}

\* the lower-case letter of each upper-case letter
LowerOf ==
  [c \in {UpperCase[k] : k \in DOMAIN UpperCase} |->
     LowerCase[CHOOSE k \in DOMAIN UpperCase : UpperCase[k] = c]]

\* String.prototype.toLowerCase on the letters A-Z
toLowerCase(s) ==
  [i \in DOMAIN s |-> IF s[i] \in DOMAIN LowerOf THEN LowerOf[s[i]] ELSE s[i]]

\* String.prototype.includes
includes(s, part) ==
  \E i \in 0..(Len(s) - Len(part)) : SubSeq(s, i + 1, i + Len(part)) = part

\* the values `instanceof Error` holds for: Error instances, and AppError
\* instances (class AppError extends Error)
ErrorInstances == {"Error", "AppError"}

\* the values `typeof error === 'object' && error !== null` holds for
ObjectKinds == {"Error", "AppError", "object"}

\* isNetworkError, lines 213-228
isNetworkError(error) ==
  IF error.kind \in ErrorInstances
  THEN \/ error.code # "undefined" /\ error.code \in networkCodes
       \/ \E msg \in networkMessages : includes(toLowerCase(error.message), msg)
  ELSE FALSE

\* isRetryableStatusCode, lines 230-235
isRetryableStatusCode(statusCode) ==
  IF statusCode = undefinedStatus
  THEN FALSE
  ELSE statusCode = 429 \/ statusCode = 503 \/ statusCode = 502 \/ statusCode = 504

\* getStatusCode, lines 242-249: error.response?.status ?? error.status
getStatusCode(error) ==
  IF error.kind \notin ObjectKinds
  THEN undefinedStatus
  ELSE IF error.response.present /\ error.response.status # undefinedStatus
       THEN error.response.status
       ELSE error.status

\* isRetryableError, lines 251-262
isRetryableError(error) ==
  IF isNetworkError(error)
  THEN TRUE
  ELSE IF isRetryableStatusCode(getStatusCode(error)) THEN TRUE ELSE FALSE

(* ------------------------------ error.ts -------------------------------- *)

\* a string-valued property that has no value.  Every string is a sequence
\* of single characters, so no string equals this.
undefinedString == <<"undefined">>

\* the value undefined
Undefined ==
  [kind |-> "undefined", hasMessage |-> FALSE, code |-> "undefined",
   message |-> undefinedString, status |-> undefinedStatus,
   response |-> [present |-> FALSE, status |-> undefinedStatus]]

\* ErrorCode: the closed taxonomy
ErrorCode ==
  {"CONFIG_ERROR", "VALIDATION_ERROR", "JIRA_API_ERROR", "CONFLUENCE_API_ERROR",
   "NETWORK_ERROR", "CIRCUIT_BREAKER_OPEN", "UNKNOWN_ERROR"}

\* new AppError(options): id is the identity of the created object.  An
\* AppError is an Error: it has a message, and no response or status.
AppError(id, code, message, statusCode, cause, context) ==
  [kind |-> "AppError", id |-> id, hasMessage |-> TRUE, code |-> code,
   message |-> message, status |-> undefinedStatus,
   response |-> [present |-> FALSE, status |-> undefinedStatus],
   statusCode |-> statusCode, cause |-> cause, context |-> context]

\* the static constructors of AppError
AppError_config(id, message, cause) ==
  AppError(id, "CONFIG_ERROR", message, undefinedStatus, cause, "undefined")
AppError_validation(id, message, context) ==
  AppError(id, "VALIDATION_ERROR", message, undefinedStatus, Undefined, context)
AppError_jiraApi(id, message, statusCode, cause) ==
  AppError(id, "JIRA_API_ERROR", message, statusCode, cause, "undefined")
AppError_confluenceApi(id, message, statusCode, cause) ==
  AppError(id, "CONFLUENCE_API_ERROR", message, statusCode, cause, "undefined")
AppError_network(id, message, cause) ==
  AppError(id, "NETWORK_ERROR", message, undefinedStatus, cause, "undefined")
AppError_unknown(id, message, cause) ==
  AppError(id, "UNKNOWN_ERROR", message, undefinedStatus, cause, "undefined")

\* the message of AppError.circuitBreakerOpen(service)
CircuitOpenMessage(service) ==
  IF service = "jira"
  THEN <<"C", "i", "r", "c", "u", "i", "t", " ", "b", "r", "e", "a", "k", "e", "r", " ", "i", "s",
           " ", "o", "p", "e", "n", " ", "f", "o", "r", " ", "j", "i", "r", "a", ".", " ", "S",
           "e", "r", "v", "i", "c", "e", " ", "i", "s", " ", "t", "e", "m", "p", "o", "r", "a",
           "r", "i", "l", "y", " ", "u", "n", "a", "v", "a", "i", "l", "a", "b", "l", "e", ".">>
  ELSE <<"C", "i", "r", "c", "u", "i", "t", " ", "b", "r", "e", "a", "k", "e", "r", " ", "i", "s",
           " ", "o", "p", "e", "n", " ", "f", "o", "r", " ", "c", "o", "n", "f", "l", "u", "e",
           "n", "c", "e", ".", " ", "S", "e", "r", "v", "i", "c", "e", " ", "i", "s", " ", "t",
           "e", "m", "p", "o", "r", "a", "r", "i", "l", "y", " ", "u", "n", "a", "v", "a", "i",
           "l", "a", "b", "l", "e", ".">>

AppError_circuitBreakerOpen(id, service) ==
  AppError(id, "CIRCUIT_BREAKER_OPEN", CircuitOpenMessage(service), undefinedStatus,
           Undefined, service)

\* AppError.isAppError: error instanceof AppError
isAppError(error) == error.kind = "AppError"

(* ------------------- JiraClient.ts, ConfluenceClient.ts ------------------ *)

\* the messages the normalizers and JiraClient.search give their errors
UnknownJiraError == <<"U", "n", "k", "n", "o", "w", "n", " ", "J", "i", "r", "a", " ", "e", "r", "r", "o", "r">>
UnknownConfluenceError == <<"U", "n", "k", "n", "o", "w", "n", " ", "C", "o", "n", "f", "l", "u", "e", "n", "c", "e",
      " ", "e", "r", "r", "o", "r">>
JiraApiError == <<"J", "i", "r", "a", " ", "A", "P", "I", " ", "e", "r", "r", "o", "r">>
ConfluenceApiError == <<"C", "o", "n", "f", "l", "u", "e", "n", "c", "e", " ", "A", "P", "I", " ", "e", "r", "r",
      "o", "r">>
SearchReturnedHtml ==
  <<"J", "i", "r", "a", " ", "s", "e", "a", "r", "c", "h", " ", "r", "e", "t", "u", "r", "n",
      "e", "d", " ", "H", "T", "M", "L", " ", "(", "l", "i", "k", "e", "l", "y", " ", "a",
      " ", "l", "o", "g", "i", "n", " ", "p", "a", "g", "e", ")", ".", " ", "V", "e", "r",
      "i", "f", "y", " ", "a", "u", "t", "h", "e", "n", "t", "i", "c", "a", "t", "i", "o",
      "n", " ", "c", "r", "e", "d", "e", "n", "t", "i", "a", "l", "s", ".">>
UnexpectedSearchFormat ==
  <<"U", "n", "e", "x", "p", "e", "c", "t", "e", "d", " ", "J", "i", "r", "a", " ", "s", "e",
      "a", "r", "c", "h", " ", "r", "e", "s", "p", "o", "n", "s", "e", " ", "f", "o", "r",
      "m", "a", "t">>

\* response.data absent, or with none of the properties the normalizers read
NoData ==
  [errorMessages |-> <<>>, errors |-> <<>>, message |-> undefinedString,
   reason |-> undefinedString]

RECURSIVE join(_, _)
\* Array.prototype.join
join(strings, separator) ==
  IF Len(strings) = 0 THEN <<>>
  ELSE IF Len(strings) = 1 THEN strings[1]
       ELSE strings[1] \o separator \o join(Tail(strings), separator)

\* isJiraErrorResponse, lines 44-46: an object that has a message property
isJiraErrorResponse(error) == error.kind \in ObjectKinds /\ error.hasMessage

\* getJiraErrorStatus, lines 48-53: error.response?.status ?? error.status
getJiraErrorStatus(error) ==
  IF ~isJiraErrorResponse(error)
  THEN undefinedStatus
  ELSE IF error.response.present /\ error.response.status # undefinedStatus
       THEN error.response.status
       ELSE error.status

\* isRetryableJiraError, lines 55-66
isRetryableJiraError(error) ==
  IF isRetryableError(error)
  THEN TRUE
  ELSE getJiraErrorStatus(error) \in {429, 503, 502, 504}

\* lines 78-92 of normalizeJiraError: response.data.errorMessages, then
\* "field: msg" for the entries of response.data.errors, joined with "; ";
\* with none of them error.message ?? 'Jira API error'
jiraErrorMessage(error) ==
  LET data == IF error.response.present THEN error.response.data ELSE NoData
      messages == data.errorMessages
                  \o [i \in DOMAIN data.errors |->
                        data.errors[i].field \o <<":", " ">> \o data.errors[i].msg]
  IN IF Len(messages) > 0 THEN join(messages, <<";", " ">>)
     ELSE IF error.message # undefinedString THEN error.message
          ELSE JiraApiError

\* faulty variant of normalizeJiraError: an AppError is wrapped like any
\* other object with a message (C23_NormalizeIdempotent fails with it)
normalizeJiraError_rewraps(error, id) ==
  IF ~isJiraErrorResponse(error)
  THEN AppError_unknown(id, UnknownJiraError, error)
  ELSE AppError_jiraApi(id, jiraErrorMessage(error), getJiraErrorStatus(error), error)

\* normalizeJiraError, lines 68-95; id is the identity of the AppError it
\* creates when it creates one
normalizeJiraError(error, id) ==
  IF isAppError(error) THEN error
  ELSE IF ~isJiraErrorResponse(error)
       THEN AppError_unknown(id, UnknownJiraError, error)
       ELSE AppError_jiraApi(id, jiraErrorMessage(error), getJiraErrorStatus(error), error)

\* isConfluenceErrorResponse, ConfluenceClient.ts lines 70-72
isConfluenceErrorResponse(error) == error.kind \in ObjectKinds /\ error.hasMessage

\* getConfluenceErrorStatus, lines 74-79
getConfluenceErrorStatus(error) ==
  IF ~isConfluenceErrorResponse(error)
  THEN undefinedStatus
  ELSE IF error.response.present /\ error.response.status # undefinedStatus
       THEN error.response.status
       ELSE error.status

\* isRetryableConfluenceError, lines 81-92
isRetryableConfluenceError(error) ==
  IF isRetryableError(error)
  THEN TRUE
  ELSE getConfluenceErrorStatus(error) \in {429, 503, 502, 504}

\* lines 104-107 of normalizeConfluenceError:
\* responseData?.message ?? responseData?.reason ?? error.message ?? 'Confluence API error'
confluenceErrorMessage(error) ==
  LET data == IF error.response.present THEN error.response.data ELSE NoData
  IN IF data.message # undefinedString THEN data.message
     ELSE IF data.reason # undefinedString THEN data.reason
          ELSE IF error.message # undefinedString THEN error.message
               ELSE ConfluenceApiError

\* normalizeConfluenceError, lines 94-110
normalizeConfluenceError(error, id) ==
  IF isAppError(error) THEN error
  ELSE IF ~isConfluenceErrorResponse(error)
       THEN AppError_unknown(id, UnknownConfluenceError, error)
       ELSE AppError_confluenceApi(id, confluenceErrorMessage(error),
                                   getConfluenceErrorStatus(error), error)

(* --------------------------- option callbacks -------------------------- *)

shouldTrip(opts, error) ==
  \/ opts.shouldTrip = "always"
  \/ opts.shouldTrip = "retryable" /\ error = "ECONNRESET"
  \/ opts.shouldTrip = "isRetryableJiraError" /\ isRetryableJiraError(error)
  \/ opts.shouldTrip = "isRetryableConfluenceError" /\ isRetryableConfluenceError(error)

\* the values of options.shouldRetry: the default () => true, a classifier
\* of the error such as isRetryableError, one that looks at the attempt
\* number (retry the first failure only), and () => false
ShouldRetryOptions == {"always", "retryable", "firstOnly", "never"}

\* maxDelayMs: the default, and a cap below the second backoff
RetryOptions ==
  [maxAttempts : 0..MaxAttemptsOption,
   baseDelayMs : {DEFAULT_BASE_DELAY_MS},
   maxDelayMs : {DEFAULT_MAX_DELAY_MS, 1500},
   shouldRetry : ShouldRetryOptions,
   onRetry : BOOLEAN]

DefaultRetryOptions ==
  [maxAttempts |-> DEFAULT_MAX_ATTEMPTS,
   baseDelayMs |-> DEFAULT_BASE_DELAY_MS,
   maxDelayMs |-> DEFAULT_MAX_DELAY_MS,
   shouldRetry |-> "always",
   onRetry |-> FALSE]

shouldRetry(opts, error, attempt) ==
  \/ opts.shouldRetry = "always"
  \/ opts.shouldRetry = "retryable" /\ error = "ECONNRESET"
  \/ opts.shouldRetry = "firstOnly" /\ attempt < 2
  \/ opts.shouldRetry = "isRetryableJiraError" /\ isRetryableJiraError(error)
  \/ opts.shouldRetry = "isRetryableConfluenceError" /\ isRetryableConfluenceError(error)

\* Math.random(), in hundredths: values of [0, 1)
Randoms == {0, 50, 99}

(* ------------------------------- state -------------------------------- *)

VARIABLES
  circuits,   \* the Map: service name -> object id, NoCircuit when absent
  objects,    \* heap of CircuitState objects
  calls,      \* the suspended withCircuitBreaker activations, one per slot
  settled,    \* the activation that settled last: what fn did and what the caller got
  clock,      \* Date.now(), in ticks
  failRun,    \* history: the run of sequential tripping failures since the circuit was fresh
  notified,   \* the invocations of the onStateChange callbacks so far, in order
  retry,      \* the withRetry activation: its locals and where it stands
  events,     \* what the withRetry activation has called and how the operation
              \* settled, so far, in order
  backoff,    \* calculateBackoff applied for attempts 1, 2, ... with fixed delays options
  classified, \* the value isRetryableError was last applied to, and what it returned
  client,     \* the JiraClient / ConfluenceClient operation in progress or done:
              \* the raw SDK calls it made and what the caller got
  normalized, \* the value normalizeJiraError / normalizeConfluenceError was last
              \* applied to, what it returned, and what it returns for that
  handler,    \* the handleJiraTransition activation: the client calls it made
              \* and how it settled
  fieldService, \* the FieldService instance: its configuration, cachedFields, the
              \* resolveFieldId / assertFieldId activations and the listFields calls
  issueService, \* the IssueService activation building a create or update payload
  creation    \* the handleJiraCreate activation of the legacy create path: its
              \* locals, the payloads it sent and the errors it got

breakerVars == <<circuits, objects, calls, settled, clock, failRun, notified>>
retryVars == <<retry, events>>
pureVars == <<backoff, classified>>
serviceVars == <<handler, fieldService, issueService, creation>>
appVars == <<client, normalized, serviceVars>>
otherVars == <<pureVars, appVars>>
vars ==
  <<circuits, objects, calls, settled, clock, failRun, notified, retry, events, backoff,
    classified, client, normalized, handler, fieldService, issueService, creation>>

NoCircuit == 0
ObjIds == 1..(Cardinality(Services) + MaxCalls)

\* a heap cell no reference points to
Free == [state |-> "free", failureCount |-> 0, lastFailureTime |-> 0, halfOpenAttempts |-> 0]

\* the object getCircuit creates
NewCircuit == [state |-> "closed", failureCount |-> 0, lastFailureTime |-> 0, halfOpenAttempts |-> 0]

\* history: the snapshot of an activation that another activation has overlapped
Overlapped == [state |-> "overlapped", failureCount |-> 0, lastFailureTime |-> 0, halfOpenAttempts |-> 0]

Now == clock * TickMs

\* outcomes of a promise
Pending == [kind |-> "pending", origin |-> "-", payload |-> "-"]
Resolved(v) == [kind |-> "resolved", origin |-> "fn", payload |-> v]
Rejected(origin, e) == [kind |-> "rejected", origin |-> origin, payload |-> e]

\* AppError.circuitBreakerOpen(service): an error object the breaker creates
circuitBreakerOpen == Rejected("breaker", "CIRCUIT_BREAKER_OPEN")

\* a slot with no activation in it.  A suspended activation holds what the
\* code after the await reads: the object, `now`, and the options
\* failureThreshold, shouldTrip and onStateChange; and as history the state it arrived in
\* and the object's value then (`before`, until another activation runs on
\* the object)
IdleCall ==
  [pc |-> "idle", serviceName |-> "-", circuit |-> NoCircuit, now |-> 0,
   failureThreshold |-> 0, shouldTrip |-> "-", onStateChange |-> FALSE,
   arrivedIn |-> "-", before |-> Free]

\* before any activation has settled
NoneSettled ==
  [arrivedIn |-> "-", fnCalls |-> 0, fnOutcome |-> Pending, outcome |-> Pending]

\* history of a circuit nothing has been called on since it was fresh;
\* n tripping failures in a row, all sequential and all with failureThreshold
FreshRun == [ok |-> TRUE, n |-> 0, failureThreshold |-> 0]
BrokenRun == [ok |-> FALSE, n |-> 0, failureThreshold |-> 0]

\* no withRetry activation yet; lastError is declared without a value (line 184)
IdleRetry ==
  [pc |-> "idle", attempt |-> 0, maxAttempts |-> 0, baseDelayMs |-> 0, maxDelayMs |-> 0,
   shouldRetry |-> "-", onRetry |-> FALSE, lastError |-> "undefined", outcome |-> Pending]

\* the entries of events
FnCalled(attempt) == [kind |-> "fn", attempt |-> attempt, error |-> "-", delayMs |-> 0]
ShouldRetryCalled(error, attempt) ==
  [kind |-> "shouldRetry", attempt |-> attempt, error |-> error, delayMs |-> 0]
OnRetryCalled(error, attempt, delayMs) ==
  [kind |-> "onRetry", attempt |-> attempt, error |-> error, delayMs |-> delayMs]
SleepCalled(attempt, delayMs) ==
  [kind |-> "sleep", attempt |-> attempt, error |-> "-", delayMs |-> delayMs]
\* history: the number-th promise the operation returned has settled
FnResolved(v, number) ==
  [kind |-> "fnResolved", attempt |-> number, error |-> v, delayMs |-> 0]
FnRejected(error, number) ==
  [kind |-> "fnRejected", attempt |-> number, error |-> error, delayMs |-> 0]

\* calculateBackoff not applied yet
NoBackoff == [baseDelayMs |-> 0, maxDelayMs |-> 0, delays |-> <<>>]

\* the delay options calculateBackoff is applied with: the defaults, the
\* options of the tests (10000 capped at 15000), no base delay, and a cap
\* below the base
BackoffOptions ==
  [baseDelayMs : {0, DEFAULT_BASE_DELAY_MS, 10000},
   maxDelayMs : {DEFAULT_MAX_DELAY_MS, 15000, 500}]

\* error messages, as sequences of characters: the axios message of the
\* tests, the three network messages in other cases and inside longer
\* messages, a near miss, a message of no network failure, the empty message
Messages == {
  <<"N", "e", "t", "w", "o", "r", "k", " ", "E", "r", "r", "o", "r">>,
  <<"r", "e", "q", "u", "e", "s", "t", ":", " ", "S", "o", "c", "k", "e", "t", " ", "H", "a", "n", "g", " ", "U", "p">>,
  <<"C", "O", "N", "N", "E", "C", "T", "I", "O", "N", " ", "R", "E", "F", "U", "S", "E", "D", " ", "b", "y", " ", "h", "o", "s", "t">>,
  <<"n", "e", "t", " ", "w", "o", "r", "k", " ", "e", "r", "r", "o", "r">>,
  <<"v", "a", "l", "i", "d", "a", "t", "i", "o", "n", " ", "f", "a", "i", "l", "e", "d">>,
  <<>>}

\* error.code: none, the five network codes, a code of another failure
Codes == {"undefined", "ECONNRESET", "ECONNREFUSED", "ETIMEDOUT", "ENOTFOUND", "EAI_AGAIN", "EPIPE"}

\* HTTP statuses on rejected values
Statuses == {undefinedStatus, 429, 502, 503, 504, 400, 401, 404, 500}

\* error.response: absent, or an object with a status or none
Responses ==
  {[present |-> FALSE, status |-> undefinedStatus]} \cup [present : {TRUE}, status : Statuses]

\* a property read on a value that has none
NoProperties ==
  [code |-> "undefined", message |-> <<>>,
   response |-> [present |-> FALSE, status |-> undefinedStatus], status |-> undefinedStatus]

\* the values isRetryableError is applied to (error: unknown): Error
\* instances and plain objects with code, message, response and status, and
\* values that are no objects
ErrorValues ==
  [kind : {"Error", "object"}, code : Codes, message : Messages, response : Responses,
   status : Statuses]
  \cup {[kind |-> k] @@ NoProperties : k \in {"string", "number", "null", "undefined"}}

\* isRetryableError not applied yet
NoClassified == [applied |-> FALSE, error |-> [kind |-> "undefined"] @@ NoProperties,
                 retryable |-> FALSE]

\* messages of rejected values
NotFound == <<"N", "o", "t", " ", "F", "o", "u", "n", "d">>
ServiceUnavailable == <<"S", "e", "r", "v", "i", "c", "e", " ", "U", "n", "a", "v", "a", "i", "l", "a", "b", "l", "e">>
SocketHangUp == <<"s", "o", "c", "k", "e", "t", " ", "h", "a", "n", "g", " ", "u", "p">>

\* response.data of rejected values: none; Jira's errorMessages, errors, and
\* both; Confluence's message and reason, and reason alone
IssueDoesNotExist == <<"I", "s", "s", "u", "e", " ", "d", "o", "e", "s", " ", "n", "o", "t", " ", "e", "x", "i", "s", "t">>
NoPermission == <<"N", "o", " ", "p", "e", "r", "m", "i", "s", "s", "i", "o", "n">>
DataValues ==
  {NoData,
   [NoData EXCEPT !.errorMessages = <<IssueDoesNotExist, NoPermission>>],
   [NoData EXCEPT !.errors = <<[field |-> <<"s", "u", "m", "m", "a", "r", "y">>, msg |-> <<"r", "e", "q", "u", "i", "r", "e", "d">>]>>],
   [NoData EXCEPT !.errorMessages = <<IssueDoesNotExist>>,
                  !.errors = <<[field |-> <<"s", "u", "m", "m", "a", "r", "y">>, msg |-> <<"r", "e", "q", "u", "i", "r", "e", "d">>]>>],
   [NoData EXCEPT !.message = NoPermission, !.reason = NotFound],
   [NoData EXCEPT !.reason = NotFound]}

\* error.response of the values the normalizers are applied to
NoResponse == [present |-> FALSE, status |-> undefinedStatus, data |-> NoData]
ResponseValues ==
  {NoResponse} \cup [present : {TRUE}, status : {undefinedStatus, 404, 503}, data : DataValues]

\* the values the normalizers are applied to (error: unknown): Error
\* instances; plain objects with a message, with a message property without
\* a value, and without a message property; values that are no objects;
\* AppErrors of every code
RawObjects ==
  [kind : {"Error"}, hasMessage : {TRUE}, code : {"undefined", "ECONNRESET"},
   message : {NotFound, SocketHangUp}, response : ResponseValues,
   status : {undefinedStatus, 500, 503}]
  \cup [kind : {"object"}, hasMessage : {TRUE}, code : {"undefined", "ECONNRESET"},
        message : {NotFound, SocketHangUp, undefinedString}, response : ResponseValues,
        status : {undefinedStatus, 500, 503}]
  \cup [kind : {"object"}, hasMessage : {FALSE}, code : {"undefined", "ECONNRESET"},
        message : {undefinedString}, response : ResponseValues,
        status : {undefinedStatus, 500, 503}]
NonObjects ==
  {[Undefined EXCEPT !.kind = k] : k \in {"string", "number", "null", "undefined"}}
AppErrors ==
  {AppError_config(1, NotFound, Undefined),
   AppError_validation(1, NotFound, "acceptance"),
   AppError_jiraApi(1, NotFound, 404, Undefined),
   AppError_confluenceApi(1, NotFound, 503, Undefined),
   AppError_network(1, SocketHangUp, Undefined),
   AppError_circuitBreakerOpen(1, "jira"),
   AppError_unknown(1, UnknownJiraError, [Undefined EXCEPT !.kind = "null"])}
NormalizerInputs == RawObjects \cup NonObjects \cup AppErrors

\* the two normalizers, by the service of their client
Normalizers == {"jira", "confluence"}

\* the options of a JiraClient (part_007 lines 138-151) and of a
\* ConfluenceClient (ConfluenceClient.ts lines 148-161) made without retry
\* and circuitBreaker overrides, as createJiraClientFromEnv() and
\* createConfluenceClientFromEnv() make them
ClientRetryOptions(service) ==
  [maxAttempts |-> 3, baseDelayMs |-> 1000, maxDelayMs |-> 10000,
   shouldRetry |-> IF service = "jira" THEN "isRetryableJiraError"
                   ELSE "isRetryableConfluenceError",
   onRetry |-> FALSE]
ClientCircuitBreakerOptions(service) ==
  [failureThreshold |-> 5, resetTimeoutMs |-> 30000,
   halfOpenMaxAttempts |-> DEFAULT_HALF_OPEN_MAX_ATTEMPTS,
   shouldTrip |-> IF service = "jira" THEN "isRetryableJiraError"
                  ELSE "isRetryableConfluenceError",
   onStateChange |-> FALSE]

\* the operations of the clients: search, and one of those that hand the
\* SDK's result on as it is
Operations(service) == IF service = "jira" THEN {"search", "getIssue"} ELSE {"getPageById"}

\* what a raw SDK call resolves with: an object; for the Jira search also a
\* string: a login page, a login page after white space, JSON, and a text
\* that is neither
HtmlLogin == <<"<", "h", "t", "m", "l", ">", "l", "o", "g", "i", "n", "<", "/", "h", "t", "m", "l", ">">>
PaddedHtmlLogin == <<" ", "<", "h", "t", "m", "l", ">">>
JsonText == <<"{", "\"", "t", "o", "t", "a", "l", "\"", ":", "0", "}">>
PlainText == <<"o", "o", "p", "s">>
ResultObject == [kind |-> "object", text |-> undefinedString]
RawResults(operation) ==
  IF operation = "search"
  THEN {ResultObject} \cup [kind : {"string"}, text : {HtmlLogin, PaddedHtmlLogin, JsonText, PlainText}]
  ELSE {ResultObject}

\* what a raw SDK call rejects with: HTTP-error-shaped objects with a
\* retryable and a non-retryable status, a network Error instance, a
\* network-error-shaped plain object, a string, null
HttpError(message, status) ==
  [kind |-> "object", hasMessage |-> TRUE, code |-> "undefined", message |-> message,
   response |-> [present |-> TRUE, status |-> status, data |-> NoData],
   status |-> undefinedStatus]
NetworkError(kind) ==
  [kind |-> kind, hasMessage |-> TRUE, code |-> "ECONNRESET", message |-> SocketHangUp,
   response |-> NoResponse, status |-> undefinedStatus]
RawRejections ==
  {HttpError(ServiceUnavailable, 503), HttpError(NotFound, 404),
   NetworkError("Error"), NetworkError("object"),
   [Undefined EXCEPT !.kind = "string"], [Undefined EXCEPT !.kind = "null"]}

\* Math.random() of the backoff of the clients' retries
ClientRandoms == {50}

\* the identities of the AppErrors one client operation can create: by the
\* breaker, by the operation, by the normalizer
BreakerErrorId == 1
OperationErrorId == 2
NormalizerErrorId == 3

\* no client operation yet
IdleClient ==
  [pc |-> "idle", service |-> "-", operation |-> "-", circuit |-> NoCircuit, now |-> 0,
   raw |-> <<>>, parses |-> 0, outcome |-> Pending]

\* the transitions of an issue and the --status values of jira-transition:
\* names and ids are strings; one transition is named like the id of another
Transitions ==
  {[id |-> <<"1", "1">>, name |-> <<"T", "o", " ", "D", "o">>],
   [id |-> <<"3", "1">>, name |-> <<"D", "o", "n", "e">>],
   [id |-> <<"4", "1">>, name |-> <<"3", "1">>]}
TransitionLists ==
  {<<>>} \cup {<<t>> : t \in Transitions}
  \cup {<<t, u>> : t, u \in Transitions}
TransitionStatuses ==
  {<<"D", "o", "n", "e">>, <<"d", "o", "n", "e">>, <<"D", "O", "N", "E">>,
   <<"t", "o", " ", "d", "o">>, <<"3", "1">>, <<"1", "1">>,
   <<"C", "l", "o", "s", "e", "d">>}

\* what the client operations of the handler reject with
HandlerRejection ==
  AppError_jiraApi(NormalizerErrorId, NotFound, 404, HttpError(NotFound, 404))

\* handleJiraTransition not called yet
IdleHandler ==
  [pc |-> "idle", status |-> <<>>, transitions |-> <<>>, called |-> <<>>,
   outcome |-> Pending]

(* ------------------------- FieldService domain -------------------------- *)

\* LogicalFieldName, line 7
LogicalFieldNames == {"acceptance", "epic", "storyPoints", "sprint"}

\* the logical name as the text the template literal of line 36 inserts
LogicalNameText(logicalName) ==
  CASE logicalName = "acceptance" -> <<"a", "c", "c", "e", "p", "t", "a", "n", "c", "e">>
    [] logicalName = "epic" -> <<"e", "p", "i", "c">>
    [] logicalName = "storyPoints" -> <<"s", "t", "o", "r", "y", "P", "o", "i", "n", "t", "s">>
    [] logicalName = "sprint" -> <<"s", "p", "r", "i", "n", "t">>

\* a candidates option that is not set
undefinedList == <<undefinedString>>

\* the fields of a Jira instance, { id, name }: named as a candidate, named
\* as a candidate in another case, matched by a pattern only, and matched
\* by nothing; one has the id of a candidate and a name of its own
AcceptanceCriteriaField == [id |-> <<"c", "u", "s", "t", "o", "m", "f", "i", "e", "l", "d", "_", "1", "0", "0", "0", "1">>, name |-> <<"A", "c", "c", "e", "p", "t", "a", "n", "c", "e", " ", "C", "r", "i", "t", "e", "r", "i", "a">>]
StoryPointsField == [id |-> <<"c", "u", "s", "t", "o", "m", "f", "i", "e", "l", "d", "_", "1", "0", "0", "0", "2">>, name |-> <<"S", "t", "o", "r", "y", " ", "P", "o", "i", "n", "t", "s">>]
UatField == [id |-> <<"c", "u", "s", "t", "o", "m", "f", "i", "e", "l", "d", "_", "1", "0", "0", "0", "3">>, name |-> <<"U", "A", "T", " ", "A", "c", "c", "e", "p", "t", "a", "n", "c", "e", " ", "N", "o", "t", "e", "s">>]
AcceptanceField == [id |-> <<"c", "u", "s", "t", "o", "m", "f", "i", "e", "l", "d", "_", "1", "0", "0", "0", "4">>, name |-> <<"A", "C", "C", "E", "P", "T", "A", "N", "C", "E">>]
UnrelatedField == [id |-> <<"c", "u", "s", "t", "o", "m", "f", "i", "e", "l", "d", "_", "1", "0", "0", "0", "5">>, name |-> <<"U", "n", "r", "e", "l", "a", "t", "e", "d", " ", "F", "i", "e", "l", "d">>]
SpacedCriteriaField == [id |-> <<"c", "u", "s", "t", "o", "m", "f", "i", "e", "l", "d", "_", "1", "0", "0", "0", "6">>, name |-> <<"a", "c", "c", "e", "p", "t", "a", "n", "c", "e", " ", " ", "c", "r", "i", "t", "e", "r", "i", "a", " ", "l", "i", "s", "t">>]
CustomAcceptanceField == [id |-> <<"c", "u", "s", "t", "o", "m", "f", "i", "e", "l", "d", "_", "9", "9", "9", "9", "9">>, name |-> <<"M", "y", " ", "C", "u", "s", "t", "o", "m", " ", "A", "c", "c", "e", "p", "t", "a", "n", "c", "e">>]
EpicLinkField == [id |-> <<"c", "u", "s", "t", "o", "m", "f", "i", "e", "l", "d", "_", "1", "0", "1", "0", "0">>, name |-> <<"E", "p", "i", "c", " ", "L", "i", "n", "k">>]
ParentLinkField == [id |-> <<"c", "u", "s", "t", "o", "m", "f", "i", "e", "l", "d", "_", "1", "0", "1", "0", "1">>, name |-> <<"P", "a", "r", "e", "n", "t", " ", " ", "L", "i", "n", "k">>]
EpicIdField == [id |-> <<"E", "P", "I", "C", "L", "I", "N", "K">>, name |-> <<"L", "i", "n", "k", " ", "t", "o", " ", "e", "p", "i", "c">>]
SprintField == [id |-> <<"c", "u", "s", "t", "o", "m", "f", "i", "e", "l", "d", "_", "1", "0", "0", "2", "0">>, name |-> <<"S", "p", "r", "i", "n", "t">>]

\* the field catalogs of the Jira instances
Catalogs ==
  {<<>>,
   <<AcceptanceCriteriaField, StoryPointsField>>,
   <<AcceptanceField, UatField, AcceptanceCriteriaField>>,
   <<UatField, SpacedCriteriaField>>,
   <<UatField, CustomAcceptanceField>>,
   <<ParentLinkField, EpicIdField, SprintField>>,
   <<EpicLinkField, UnrelatedField>>,
   <<UnrelatedField>>}

\* config.fieldMapping: nothing configured, an id for one logical name, and
\* an empty string
NoMapping == [n \in LogicalFieldNames |-> undefinedString]
ConfiguredAcceptance == <<"c", "u", "s", "t", "o", "m", "f", "i", "e", "l", "d", "_", "1", "2", "3", "4", "5">>
ConfiguredEpic == <<"c", "u", "s", "t", "o", "m", "f", "i", "e", "l", "d", "_", "e", "p", "i", "c">>
FieldMappings ==
  {NoMapping,
   [NoMapping EXCEPT !["acceptance"] = ConfiguredAcceptance],
   [NoMapping EXCEPT !["epic"] = ConfiguredEpic],
   [NoMapping EXCEPT !["acceptance"] = <<>>]}

\* the JiraConfig values a FieldService is constructed with
JiraConfigs ==
  {[fieldMapping |-> m, acceptanceFieldCandidates |-> undefinedList,
    epicFieldCandidates |-> undefinedList] : m \in FieldMappings}
  \cup {[fieldMapping |-> NoMapping,
         acceptanceFieldCandidates |-> <<CustomAcceptanceField.name>>,
         epicFieldCandidates |-> <<EpicIdField.name>>]}

\* options.client: none, or a client whose listFields resolves with the
\* fields of its Jira instance when it resolves
NoClient == [present |-> FALSE, fields |-> <<>>]
JiraClients == {NoClient} \cup {[present |-> TRUE, fields |-> c] : c \in Catalogs}

\* the resolveFieldId / assertFieldId activations that can be in progress
\* together
Resolutions == 1..MaxResolutions

\* the error assertFieldId creates (line 36) is one object
FieldErrorId == 4

\* this.cachedFields: null, or the array of the fields
null == [isNull |-> TRUE, fields |-> <<>>]
Cached(fields) == [isNull |-> FALSE, fields |-> fields]

\* no activation in the slot
IdleResolution ==
  [pc |-> "idle", method |-> "-", logicalName |-> "-", getFields |-> "-",
   fields |-> <<>>, outcome |-> Pending]

\* no FieldService constructed yet
NoFieldService ==
  [constructed |-> FALSE,
   config |-> [fieldMapping |-> NoMapping, acceptanceFieldCandidates |-> undefinedList,
               epicFieldCandidates |-> undefinedList],
   client |-> NoClient, cachedFields |-> null,
   resolutions |-> [r \in Resolutions |-> IdleResolution],
   started |-> 0, listFieldsCalls |-> 0]

(* ------------------------- IssueService domain -------------------------- *)

\* the values of an input attribute and of a payload field: undefined, null,
\* a string, a number (by its digits), an array of strings, and the objects
\* { key: text } and { name: text }
undefinedValue == [type |-> "undefined", text |-> <<>>, items |-> <<>>]
nullValue == [type |-> "null", text |-> <<>>, items |-> <<>>]
String(text) == [type |-> "string", text |-> text, items |-> <<>>]
Number(digits) == [type |-> "number", text |-> digits, items |-> <<>>]
Array(items) == [type |-> "array", text |-> <<>>, items |-> items]
KeyObject(text) == [type |-> "key", text |-> text, items |-> <<>>]
NameObject(text) == [type |-> "name", text |-> text, items |-> <<>>]

\* an acceptance text with a Given/when/then bullet, the table
\* formatAcceptanceAsTable makes of it, and a text without bullets
GivenWhenThen ==
  <<"-", " ", "G", "i", "v", "e", "n", " ", "a", " ", "u", "s", "e", "r", ",", " ", "w", "h",
    "e", "n", " ", "t", "h", "e", "y", " ", "l", "o", "g", " ", "i", "n", ",", " ", "t", "h",
    "e", "n", " ", "t", "h", "e", "y", " ", "s", "e", "e", " ", "t", "h", "e", " ", "b", "o",
    "a", "r", "d", ".">>
GivenWhenThenTable ==
  <<"|", "|", " ", "*", "G", "i", "v", "e", "n", "*", " ", "|", "|", " ", "*", "W", "h", "e",
    "n", "*", " ", "|", "|", " ", "*", "T", "h", "e", "n", "*", " ", "|", "|", "\n", "|", " ",
    "a", " ", "u", "s", "e", "r", " ", "|", " ", "t", "h", "e", "y", " ", "l", "o", "g", " ",
    "i", "n", " ", "|", " ", "t", "h", "e", "y", " ", "s", "e", "e", " ", "t", "h", "e", " ",
    "b", "o", "a", "r", "d", " ", "|">>
PlainAcceptance == <<"M", "u", "s", "t", " ", "w", "o", "r", "k">>

\* the field ids the FieldService of the tests resolves the logical names to
AcceptanceFieldId == <<"c", "u", "s", "t", "o", "m", "f", "i", "e", "l", "d", "_", "1", "0", "0", "0", "1">>
EpicFieldId == <<"c", "u", "s", "t", "o", "m", "f", "i", "e", "l", "d", "_", "1", "0", "0", "0", "2">>
StoryPointsFieldId == <<"c", "u", "s", "t", "o", "m", "f", "i", "e", "l", "d", "_", "1", "0", "0", "0", "3">>

\* the FieldService an IssueService is given: what resolveFieldId resolves
\* to for each logical name: an id for each, or an id for none
FieldMaps ==
  {[acceptance |-> AcceptanceFieldId, epic |-> EpicFieldId,
    storyPoints |-> StoryPointsFieldId],
   [acceptance |-> undefinedString, epic |-> undefinedString,
    storyPoints |-> undefinedString]}

\* config.formatAcceptanceAsTable: not given, or false
FormatOptions == {"undefined", "false"}

\* the value customFields gives to a key
CustomValue == String(<<"c", "u", "s", "t", "o", "m", " ", "v", "a", "l", "u", "e">>)

\* input.customFields: not given, empty, a field id of its own, the key of a
\* named field, the id the acceptance field resolves to, and several keys
NoCustomFields == [defined |-> FALSE, entries |-> <<>>]
CustomFields(keys) == [defined |-> TRUE, entries |-> [k \in keys |-> CustomValue]]
CustomFieldsValues ==
  {NoCustomFields,
   CustomFields({}),
   CustomFields({<<"c", "u", "s", "t", "o", "m", "f", "i", "e", "l", "d", "_", "9", "9", "9", "9", "9">>}),
   CustomFields({<<"s", "u", "m", "m", "a", "r", "y">>}),
   CustomFields({AcceptanceFieldId}),
   CustomFields({EpicFieldId, StoryPointsFieldId, <<"d", "e", "s", "c", "r", "i", "p", "t", "i", "o", "n">>, <<"l", "a", "b", "e", "l", "s">>})}

\* the named optional attributes of an input: none, all, and the empty ones
NamedAttributes ==
  {[description |-> undefinedValue, assignee |-> undefinedValue,
    priority |-> undefinedValue, labels |-> undefinedValue],
   [description |-> String(<<"A", " ", "d", "e", "s", "c", "r", "i", "p", "t", "i", "o", "n">>), assignee |-> String(<<"a", "l", "i", "c", "e">>),
    priority |-> String(<<"H", "i", "g", "h">>), labels |-> Array(<<<<"b", "a", "c", "k", "e", "n", "d">>>>)],
   [description |-> String(<<>>), assignee |-> String(<<>>),
    priority |-> undefinedValue, labels |-> Array(<<>>)]}

\* CreateIssueInput / UpdateIssueInput, lines 8-36
IssueInputs ==
  {[project |-> String(project), issueType |-> String(<<"S", "t", "o", "r", "y">>), summary |-> summary,
    description |-> named.description, assignee |-> named.assignee,
    priority |-> named.priority, labels |-> named.labels,
    acceptance |-> acceptance, epic |-> epic, storyPoints |-> storyPoints,
    customFields |-> customFields] :
     project \in {<<>>, <<"T", "E", "S", "T">>},
     summary \in {undefinedValue, String(<<>>), String(<<"T", "e", "s", "t", " ", "i", "s", "s", "u", "e">>)},
     named \in NamedAttributes,
     acceptance \in {undefinedValue, String(<<>>), String(GivenWhenThen),
                     String(PlainAcceptance)},
     epic \in {undefinedValue, String(<<>>), String(<<"E", "P", "I", "C", "-", "1", "2", "3">>)},
     storyPoints \in {undefinedValue, Number(<<"0">>), Number(<<"5">>)},
     customFields \in CustomFieldsValues}

\* a CreateIssueInput has a summary (line 11); an UpdateIssueInput has no
\* project and no issue type (lines 24-34): the ones of the record are not read
CreateIssueInputs == {input \in IssueInputs : input.summary # undefinedValue}
UpdateIssueInputs == {input \in IssueInputs : input.project.text # <<>>}

\* the errors IssueService creates are one object each
IssueErrorId == 5

\* what client.createIssue / client.updateIssue reject with
IssueRejection ==
  AppError_jiraApi(NormalizerErrorId, NoPermission, 403, HttpError(NoPermission, 403))

\* no IssueService constructed yet
IdleIssueService ==
  [pc |-> "unconstructed", fieldMap |-> [acceptance |-> undefinedString,
                                        epic |-> undefinedString,
                                        storyPoints |-> undefinedString],
   formatAcceptance |-> TRUE, method |-> "-", input |-> <<>>, fields |-> <<>>,
   called |-> <<>>, outcome |-> Pending]

(* ----------------------- handleJiraCreate domain ------------------------ *)

\* constants.js, lines 147-149
ACCEPTANCE_FIELD_DEFAULTS == <<<<"c", "u", "s", "t", "o", "m", "f", "i", "e", "l", "d", "_", "1", "0", "2", "0", "1">>>>
EPIC_FIELD_DEFAULTS ==
  <<<<"c", "u", "s", "t", "o", "m", "f", "i", "e", "l", "d", "_", "1", "0", "0", "0", "1">>,
    <<"c", "u", "s", "t", "o", "m", "f", "i", "e", "l", "d", "_", "1", "5", "2", "0", "8">>,
    <<"c", "u", "s", "t", "o", "m", "f", "i", "e", "l", "d", "_", "1", "0", "0", "0", "8">>>>
EPIC_STRING_FIELD_DEFAULTS ==
  <<<<"c", "u", "s", "t", "o", "m", "f", "i", "e", "l", "d", "_", "1", "0", "0", "0", "1">>,
    <<"c", "u", "s", "t", "o", "m", "f", "i", "e", "l", "d", "_", "1", "0", "0", "0", "8">>>>

\* line 303: attempt < 3
CreateAttempts == 3

\* what --acceptance-field, JIRA_ACCEPTANCE_FIELD and JIRA_ACCEPTANCE_FIELDS
\* hold: nothing; the built-in default as the override; an override of its
\* own; an override, a variable and a list; a list with blanks in it
AcceptanceFieldSettings ==
  {[acceptanceField |-> undefinedString, JIRA_ACCEPTANCE_FIELD |-> undefinedString,
    JIRA_ACCEPTANCE_FIELDS |-> undefinedString],
   [acceptanceField |-> <<"c", "u", "s", "t", "o", "m", "f", "i", "e", "l", "d", "_", "1", "0", "2", "0", "1">>, JIRA_ACCEPTANCE_FIELD |-> undefinedString,
    JIRA_ACCEPTANCE_FIELDS |-> undefinedString],
   [acceptanceField |-> <<" ", "c", "u", "s", "t", "o", "m", "f", "i", "e", "l", "d", "_", "2", "0", "0", "0", "1", " ">>, JIRA_ACCEPTANCE_FIELD |-> undefinedString,
    JIRA_ACCEPTANCE_FIELDS |-> undefinedString],
   [acceptanceField |-> <<"c", "u", "s", "t", "o", "m", "f", "i", "e", "l", "d", "_", "2", "0", "0", "0", "1">>,
    JIRA_ACCEPTANCE_FIELD |-> <<"c", "u", "s", "t", "o", "m", "f", "i", "e", "l", "d", "_", "2", "0", "0", "0", "2">>,
    JIRA_ACCEPTANCE_FIELDS |-> <<"c", "u", "s", "t", "o", "m", "f", "i", "e", "l", "d", "_", "2", "0", "0", "0", "3", ",", " ", "c", "u", "s", "t", "o", "m", "f", "i", "e", "l", "d", "_", "2", "0", "0", "0", "4">>],
   [acceptanceField |-> <<" ", " ">>, JIRA_ACCEPTANCE_FIELD |-> undefinedString,
    JIRA_ACCEPTANCE_FIELDS |-> <<" ", "c", "u", "s", "t", "o", "m", "f", "i", "e", "l", "d", "_", "2", "0", "0", "0", "3", " ", ",", ",", " ">>]}

\* what --epic-field, JIRA_EPIC_FIELD, JIRA_EPIC_FIELDS and
\* JIRA_EPIC_STRING_FIELDS hold: nothing; a built-in default, sent as an
\* object, as the variable; a built-in default, sent as a string, as the
\* override; an override and a list of their own
EpicFieldSettings ==
  {[epicField |-> undefinedString, JIRA_EPIC_FIELD |-> undefinedString,
    JIRA_EPIC_FIELDS |-> undefinedString, JIRA_EPIC_STRING_FIELDS |-> undefinedString],
   [epicField |-> undefinedString, JIRA_EPIC_FIELD |-> <<"c", "u", "s", "t", "o", "m", "f", "i", "e", "l", "d", "_", "1", "5", "2", "0", "8">>,
    JIRA_EPIC_FIELDS |-> undefinedString, JIRA_EPIC_STRING_FIELDS |-> undefinedString],
   [epicField |-> <<"c", "u", "s", "t", "o", "m", "f", "i", "e", "l", "d", "_", "1", "0", "0", "0", "1">>, JIRA_EPIC_FIELD |-> undefinedString,
    JIRA_EPIC_FIELDS |-> undefinedString, JIRA_EPIC_STRING_FIELDS |-> undefinedString],
   [epicField |-> <<"c", "u", "s", "t", "o", "m", "f", "i", "e", "l", "d", "_", "3", "0", "0", "0", "1">>, JIRA_EPIC_FIELD |-> undefinedString,
    JIRA_EPIC_FIELDS |-> <<"c", "u", "s", "t", "o", "m", "f", "i", "e", "l", "d", "_", "3", "0", "0", "0", "2">>,
    JIRA_EPIC_STRING_FIELDS |-> <<"c", "u", "s", "t", "o", "m", "f", "i", "e", "l", "d", "_", "3", "0", "0", "0", "2">>]}

\* the options of handleJiraCreate with the environment it reads: with and
\* without acceptance criteria, an epic, a summary
CreateOptions ==
  {[summary |-> summary, acceptance |-> acceptance, epic |-> epic,
    acceptanceField |-> a.acceptanceField,
    JIRA_ACCEPTANCE_FIELD |-> a.JIRA_ACCEPTANCE_FIELD,
    JIRA_ACCEPTANCE_FIELDS |-> a.JIRA_ACCEPTANCE_FIELDS,
    epicField |-> e.epicField, JIRA_EPIC_FIELD |-> e.JIRA_EPIC_FIELD,
    JIRA_EPIC_FIELDS |-> e.JIRA_EPIC_FIELDS,
    JIRA_EPIC_STRING_FIELDS |-> e.JIRA_EPIC_STRING_FIELDS] :
     summary \in {undefinedString, <<"T", "e", "s", "t", " ", "i", "s", "s", "u", "e">>},
     acceptance \in {undefinedString, PlainAcceptance},
     epic \in {undefinedString, <<"E", "P", "I", "C", "-", "1", "2", "3">>},
     a \in AcceptanceFieldSettings, e \in EpicFieldSettings}

\* the messages of a rejection: of a field, and general ones
CannotBeSet ==
  <<"F", "i", "e", "l", "d", " ", "c", "a", "n", "n", "o", "t", " ", "b", "e", " ", "s", "e",
    "t", ".", " ", "I", "t", " ", "i", "s", " ", "n", "o", "t", " ", "o", "n", " ", "t", "h",
    "e", " ", "a", "p", "p", "r", "o", "p", "r", "i", "a", "t", "e", " ", "s", "c", "r", "e",
    "e", "n", ",", " ", "o", "r", " ", "u", "n", "k", "n", "o", "w", "n", ".">>
StringValueExpected == <<"S", "t", "r", "i", "n", "g", " ", "v", "a", "l", "u", "e", " ", "e", "x", "p", "e", "c", "t", "e", "d">>
GeneralStringValueExpected ==
  <<"c", "u", "s", "t", "o", "m", "f", "i", "e", "l", "d", "_", "1", "0", "0", "0", "8", ":", " ", "s", "t", "r", "i", "n", "g", " ", "v", "a", "l", "u", "e", " ", "e", "x", "p", "e", "c", "t", "e", "d">>
IssueTypeKey == <<"i", "s", "s", "u", "e", "t", "y", "p", "e">>
IssueTypeInvalid == <<"T", "h", "e", " ", "i", "s", "s", "u", "e", " ", "t", "y", "p", "e", " ", "s", "e", "l", "e", "c", "t", "e", "d", " ", "i", "s", " ", "i", "n", "v", "a", "l", "i", "d", ".">>

\* what the server objects to in a rejected attempt: the acceptance field of
\* the payload or not; the epic field of the payload, how; a general message
EpicObjections == {"none", "rejected", "string"}
GeneralObjections == {"none", "string", "other"}

\* handleJiraCreate not called yet
IdleCreation ==
  [pc |-> "idle", acceptance |-> undefinedString, epicKey |-> undefinedString,
   acceptanceFieldCandidates |-> <<>>, epicFieldCandidates |-> <<>>,
   epicStringFieldSet |-> {},
   acceptanceFieldIndex |-> 0, acceptanceFieldId |-> undefinedString,
   epicFieldIndex |-> 0, epicFieldId |-> undefinedString,
   includeAcceptance |-> FALSE, includeEpic |-> FALSE, epicAsString |-> FALSE,
   attempt |-> 0, payloads |-> <<>>, errors |-> <<>>, outcome |-> Pending]

\* no normalizer applied yet
NoNormalized == [applied |-> FALSE]

(* ------------------------------ helpers ------------------------------- *)

Min(S) == CHOOSE x \in S : \A y \in S : x <= y

\* the heap after an action: every cell neither the Map nor a suspended call
\* refers to is free
Collect(objs, circ, cls) ==
  [objects |-> [o \in ObjIds |->
                  IF \/ \E s \in Services : circ[s] = o
                     \/ \E c \in Calls : cls[c].pc = "awaiting" /\ cls[c].circuit = o
                  THEN objs[o] ELSE Free],
   circuits |-> circ,
   calls |-> cls]

\* the suspended activations other than c that hold object id
Others(c, id) == {d \in Calls \ {c} : calls[d].pc = "awaiting" /\ calls[d].circuit = id}

\* history: activation c has run a piece of its code on object id
Overlap(cls, c, id) ==
  [d \in Calls |-> IF d \in Others(c, id) THEN [cls[d] EXCEPT !.before = Overlapped] ELSE cls[d]]

(* ------------------------ circuitBreaker.ts --------------------------- *)

\* faulty variant of getCircuit: one object for all services
\* (C9_ServicesIsolated fails with it)
getCircuit_shared(serviceName) ==
  IF \E s \in Services : circuits[s] # NoCircuit
  THEN LET id == Min({circuits[s] : s \in {x \in Services : circuits[x] # NoCircuit}})
       IN [id |-> id,
           circuits |-> [circuits EXCEPT ![serviceName] = id],
           objects |-> objects]
  ELSE LET id == Min({o \in ObjIds : objects[o] = Free})
       IN [id |-> id,
           circuits |-> [circuits EXCEPT ![serviceName] = id],
           objects |-> [objects EXCEPT ![id] = NewCircuit]]

\* getCircuit: the object of serviceName, created closed on first use.
\* [id: the object, circuits: the Map after the call, objects: the heap after it]
getCircuit(serviceName) ==
  IF circuits[serviceName] # NoCircuit
  THEN [id |-> circuits[serviceName], circuits |-> circuits, objects |-> objects]
  ELSE LET id == Min({o \in ObjIds : objects[o] = Free})
       IN [id |-> id,
           circuits |-> [circuits EXCEPT ![serviceName] = id],
           objects |-> [objects EXCEPT ![id] = NewCircuit]]

\* faulty variant of transitionTo: the counters survive the change of state
\* (C10_TransitionsResetCounters fails with it)
transitionTo_keepsCounters(circuit, newState) ==
  [circuit EXCEPT !.state = newState]

\* transitionTo, on the object's value
transitionTo(circuit, newState) ==
  IF circuit.state = newState THEN circuit
  ELSE IF newState = "closed"
       THEN [circuit EXCEPT !.state = newState, !.failureCount = 0, !.halfOpenAttempts = 0]
       ELSE IF newState = "half-open"
            THEN [circuit EXCEPT !.state = newState, !.halfOpenAttempts = 0]
            ELSE [circuit EXCEPT !.state = newState]

\* faulty variant of onStateChangeCalls: the early return of lines 46-48 left out
\* (C13_NotifiedOncePerChange fails with it)
onStateChangeCalls_everyCall(circuit, newState, serviceName, onStateChange) ==
  IF onStateChange
  THEN <<[from |-> circuit.state, to |-> newState, service |-> serviceName]>>
  ELSE <<>>

\* transitionTo, lines 46-48 and 60-62: the calls of onStateChange it makes;
\* onStateChange is TRUE when the caller passed the callback
onStateChangeCalls(circuit, newState, serviceName, onStateChange) ==
  IF circuit.state = newState THEN <<>>
  ELSE IF onStateChange
       THEN <<[from |-> circuit.state, to |-> newState, service |-> serviceName]>>
       ELSE <<>>

\* lines 81-87: an open circuit whose reset window has passed goes half-open
afterOpenCheck(circuit, now, opts) ==
  IF circuit.state = "open" /\ now - circuit.lastFailureTime >= opts.resetTimeoutMs
  THEN transitionTo(circuit, "half-open")
  ELSE circuit

\* faulty variant of refusedOpen: the comparison of line 82 inverted
\* (C1_OpenCircuitRefuses fails with it)
refusedOpen_inverted(circuit, now, opts) ==
  circuit.state = "open" /\ now - circuit.lastFailureTime >= opts.resetTimeoutMs

\* line 83: the callback invocations of the open check
notifiedOnCall(circuit, now, opts, serviceName) ==
  IF circuit.state = "open" /\ now - circuit.lastFailureTime >= opts.resetTimeoutMs
  THEN onStateChangeCalls(circuit, "half-open", serviceName, opts.onStateChange)
  ELSE <<>>

\* line 85: the call is refused because the circuit is open
refusedOpen(circuit, now, opts) ==
  circuit.state = "open" /\ ~(now - circuit.lastFailureTime >= opts.resetTimeoutMs)

\* line 89: the call is refused because the half-open trials are used up
refusedHalfOpen(circuit, opts) ==
  circuit.state = "half-open" /\ circuit.halfOpenAttempts >= opts.halfOpenMaxAttempts

\* lines 93-95: a call admitted in half-open is counted as a trial
countTrial(circuit) ==
  IF circuit.state = "half-open"
  THEN [circuit EXCEPT !.halfOpenAttempts = @ + 1]
  ELSE circuit

\* faulty variant of onSuccess: the closed branch of line 102 left out
\* (C11_SuccessOnClosedResetsCount fails with it)
onSuccess_keepsCount(circuit) ==
  IF circuit.state = "half-open"
  THEN [circuit EXCEPT !.state = "closed", !.failureCount = 0, !.halfOpenAttempts = 0]
  ELSE circuit

\* lines 100-104: fn resolved
onSuccess(circuit) ==
  IF circuit.state = "half-open" THEN transitionTo(circuit, "closed")
  ELSE IF circuit.state = "closed" THEN [circuit EXCEPT !.failureCount = 0]
       ELSE circuit

\* faulty variant of onFailure: > for >= at line 116
\* (C2_OpensExactlyAtThreshold fails with it)
onFailure_pastThreshold(circuit, now, opts, error) ==
  IF ~shouldTrip(opts, error) THEN circuit
  ELSE LET counted == [circuit EXCEPT !.failureCount = @ + 1, !.lastFailureTime = now]
       IN IF counted.state = "half-open" THEN [counted EXCEPT !.state = "open"]
          ELSE IF counted.failureCount > opts.failureThreshold
               THEN [counted EXCEPT !.state = "open"]
               ELSE counted

\* faulty variant of onFailure: the threshold is tested on the count read
\* before the increment (C38_ClosedBelowThreshold fails with it)
onFailure_checksBeforeCounting(circuit, now, opts, error) ==
  IF ~shouldTrip(opts, error) THEN circuit
  ELSE LET counted == [circuit EXCEPT !.failureCount = @ + 1, !.lastFailureTime = now]
       IN IF counted.state = "half-open" THEN transitionTo(counted, "open")
          ELSE IF circuit.failureCount >= opts.failureThreshold
               THEN transitionTo(counted, "open")
               ELSE counted

\* lines 108-119: fn rejected with error
onFailure(circuit, now, opts, error) ==
  IF ~shouldTrip(opts, error) THEN circuit
  ELSE LET counted == [circuit EXCEPT !.failureCount = @ + 1, !.lastFailureTime = now]
       IN IF counted.state = "half-open" THEN transitionTo(counted, "open")
          ELSE IF counted.failureCount >= opts.failureThreshold
               THEN transitionTo(counted, "open")
               ELSE counted

\* line 101: the callback invocations when fn resolved
notifiedOnSuccess(circuit, serviceName, onStateChange) ==
  IF circuit.state = "half-open"
  THEN onStateChangeCalls(circuit, "closed", serviceName, onStateChange)
  ELSE <<>>

\* lines 115-118: the callback invocations when fn rejected with error
notifiedOnFailure(circuit, opts, error, serviceName) ==
  IF ~shouldTrip(opts, error) THEN <<>>
  ELSE IF circuit.state = "half-open"
       THEN onStateChangeCalls(circuit, "open", serviceName, opts.onStateChange)
       ELSE IF circuit.failureCount + 1 >= opts.failureThreshold
            THEN onStateChangeCalls(circuit, "open", serviceName, opts.onStateChange)
            ELSE <<>>

\* lines 98-106: what the call resolves with when fn resolved with v
resultOfSuccess(v) == Resolved(v)

\* faulty variant of resultOfFailure: a tripping failure is reported as the
\* breaker's own error (C8_OutcomeIsFnOutcome fails with it)
resultOfFailure_masked(circuit, opts, error) ==
  IF ~shouldTrip(opts, error) THEN Rejected("fn", error) ELSE circuitBreakerOpen

\* lines 107-122: what the call rejects with when fn rejected with error:
\* `throw error` at line 109 when shouldTrip is false, at line 121 otherwise
resultOfFailure(circuit, opts, error) ==
  IF ~shouldTrip(opts, error) THEN Rejected("fn", error) ELSE Rejected("fn", error)

\* getCircuitState and getCircuitStats read through getCircuit
getCircuitState(serviceName) ==
  LET got == getCircuit(serviceName) IN got.objects[got.id].state

getCircuitStats(serviceName) ==
  LET got == getCircuit(serviceName)
      circuit == got.objects[got.id]
  IN [state |-> circuit.state, failureCount |-> circuit.failureCount,
      lastFailureTime |-> circuit.lastFailureTime]

(* ------------------------------ actions ------------------------------- *)

Init ==
  /\ circuits = [s \in Services |-> NoCircuit]
  /\ objects = [o \in ObjIds |-> Free]
  /\ calls = [c \in Calls |-> IdleCall]
  /\ settled = NoneSettled
  /\ clock = 1
  /\ failRun = [s \in Services |-> FreshRun]
  /\ notified = <<>>
  /\ retry = IdleRetry
  /\ events = <<>>
  /\ backoff = NoBackoff
  /\ classified = NoClassified
  /\ client = IdleClient
  /\ normalized = NoNormalized
  /\ handler = IdleHandler
  /\ fieldService = NoFieldService
  /\ issueService = IdleIssueService
  /\ creation = IdleCreation

\* the slot a new activation takes
FreeSlot(c) ==
  /\ calls[c].pc = "idle"
  /\ \A d \in Calls : d < c => calls[d].pc = "awaiting"

\* history: the run after a call on its circuit is admitted or refused
RunAfterCall(run, circuit, opts, refused, overlaps) ==
  IF /\ run.ok /\ ~refused /\ ~overlaps /\ circuit.state = "closed"
     /\ (run.n = 0 \/ run.failureThreshold = opts.failureThreshold)
  THEN [run EXCEPT !.failureThreshold = opts.failureThreshold]
  ELSE BrokenRun

\* history: the run after fn settled; tripped when fn rejected and shouldTrip held
RunAfterSettle(run, tripped) ==
  IF run.ok /\ tripped THEN [run EXCEPT !.n = @ + 1] ELSE BrokenRun

\* the three variables of the heap after an action
SetHeap(heap) ==
  /\ calls' = heap.calls
  /\ circuits' = heap.circuits
  /\ objects' = heap.objects

\* withCircuitBreaker(serviceName, fn, opts), lines 70-98 up to the await.
\* (\E x \in {e} names the value of e.)
WithCircuitBreaker(c, serviceName, opts) ==
  /\ FreeSlot(c)
  /\ \E got \in {getCircuit(serviceName)} :
     \E circuit \in {got.objects[got.id]} :
     \E checked \in {afterOpenCheck(circuit, Now, opts)} :
     \E refused \in {refusedOpen(circuit, Now, opts) \/ refusedHalfOpen(checked, opts)} :
     \E after \in {IF refused THEN checked ELSE countTrial(checked)} :
     \E activation \in
          {[pc |-> "awaiting", serviceName |-> serviceName, circuit |-> got.id,
            now |-> Now, failureThreshold |-> opts.failureThreshold,
            shouldTrip |-> opts.shouldTrip, onStateChange |-> opts.onStateChange,
            arrivedIn |-> circuit.state,
            before |-> circuit]} :
     \E calls2 \in {Overlap(IF refused THEN calls ELSE [calls EXCEPT ![c] = activation],
                           c, got.id)} :
       /\ SetHeap(Collect([got.objects EXCEPT ![got.id] = after], got.circuits, calls2))
       /\ settled' = IF refused
                     THEN [arrivedIn |-> circuit.state, fnCalls |-> 0,
                           fnOutcome |-> Pending, outcome |-> circuitBreakerOpen]
                     ELSE settled
       /\ failRun' = [failRun EXCEPT ![serviceName] =
                        RunAfterCall(@, circuit, opts, refused, Others(c, got.id) # {})]
       /\ notified' = notified \o notifiedOnCall(circuit, Now, opts, serviceName)
       /\ Len(notified') <= MaxNotified
  /\ UNCHANGED <<clock, retryVars, otherVars>>

\* history: the run of the service whose registered object is id
RunsAfterSettle(id, tripped) ==
  [s \in Services |->
     IF circuits[s] = id THEN RunAfterSettle(failRun[s], tripped) ELSE failRun[s]]

\* fn's promise resolves with v: lines 98-106
FnResolves(c, v) ==
  /\ calls[c].pc = "awaiting"
  /\ \E id \in {calls[c].circuit} :
     \E calls2 \in {Overlap([calls EXCEPT ![c] = IdleCall], c, id)} :
       /\ SetHeap(Collect([objects EXCEPT ![id] = onSuccess(objects[id])], circuits, calls2))
       /\ settled' = [arrivedIn |-> calls[c].arrivedIn, fnCalls |-> 1,
                      fnOutcome |-> Resolved(v), outcome |-> resultOfSuccess(v)]
       /\ failRun' = RunsAfterSettle(id, FALSE)
       /\ notified' = notified \o notifiedOnSuccess(objects[id], calls[c].serviceName,
                                                    calls[c].onStateChange)
       /\ Len(notified') <= MaxNotified
  /\ UNCHANGED <<clock, retryVars, otherVars>>

\* fn's promise rejects with error: lines 107-122.  The activation record
\* holds the two options read here.
FnRejects(c, error) ==
  /\ calls[c].pc = "awaiting"
  /\ \E id \in {calls[c].circuit} :
     \E after \in {onFailure(objects[id], calls[c].now, calls[c], error)} :
     \E calls2 \in {Overlap([calls EXCEPT ![c] = IdleCall], c, id)} :
       /\ after.failureCount <= MaxFailures
       /\ SetHeap(Collect([objects EXCEPT ![id] = after], circuits, calls2))
       /\ settled' = [arrivedIn |-> calls[c].arrivedIn, fnCalls |-> 1,
                      fnOutcome |-> Rejected("fn", error),
                      outcome |-> resultOfFailure(objects[id], calls[c], error)]
       /\ failRun' = RunsAfterSettle(id, shouldTrip(calls[c], error))
       /\ notified' = notified \o notifiedOnFailure(objects[id], calls[c], error,
                                                    calls[c].serviceName)
       /\ Len(notified') <= MaxNotified
  /\ UNCHANGED <<clock, retryVars, otherVars>>

\* faulty variant of ResetCircuit: the object is set back to closed in place,
\* its counters kept (C12_ResetGivesFreshCircuit fails with it)
ResetCircuit_inPlace(serviceName) ==
  /\ circuits[serviceName] # NoCircuit
  /\ SetHeap(Collect([objects EXCEPT ![circuits[serviceName]].state = "closed"],
                     circuits, calls))
  /\ failRun' = [failRun EXCEPT ![serviceName] = FreshRun]
  /\ UNCHANGED <<settled, clock, notified, retryVars, otherVars>>

\* resetCircuit(serviceName): circuits.delete
ResetCircuit(serviceName) ==
  /\ circuits[serviceName] # NoCircuit
  /\ SetHeap(Collect(objects, [circuits EXCEPT ![serviceName] = NoCircuit], calls))
  /\ failRun' = [failRun EXCEPT ![serviceName] = FreshRun]
  /\ UNCHANGED <<settled, clock, notified, retryVars, otherVars>>

\* resetAllCircuits(): circuits.clear
ResetAllCircuits ==
  /\ \E s \in Services : circuits[s] # NoCircuit
  /\ SetHeap(Collect(objects, [s \in Services |-> NoCircuit], calls))
  /\ failRun' = [s \in Services |-> FreshRun]
  /\ UNCHANGED <<settled, clock, notified, retryVars, otherVars>>

\* getCircuitState / getCircuitStats on a service not yet in the Map create its entry
GetCircuitStats(serviceName) ==
  /\ circuits[serviceName] = NoCircuit
  /\ \E got \in {getCircuit(serviceName)} :
       SetHeap(Collect(got.objects, got.circuits, calls))
  /\ UNCHANGED <<settled, clock, failRun, notified, retryVars, otherVars>>

\* time passes
Tick ==
  /\ clock < MaxClock
  /\ clock' = clock + 1
  /\ UNCHANGED <<circuits, objects, calls, settled, failRun, notified, retryVars, otherVars>>

(* ------------------------------ withRetry ------------------------------ *)

RECURSIVE Pow2(_)
\* Math.pow(2, n) for n >= 0
Pow2(n) == IF n <= 0 THEN 1 ELSE 2 * Pow2(n - 1)

\* faulty variant of calculateBackoff: the cap of line 165 left out
\* (C19_BackoffBounds fails with it)
calculateBackoff_uncapped(attempt, baseDelayMs, maxDelayMs, random) ==
  baseDelayMs * Pow2(attempt - 1)
    + (random * 3 * baseDelayMs * Pow2(attempt - 1)) \div 1000

\* calculateBackoff, lines 162-166; random is Math.random() in hundredths.
\* baseDelayMs is a multiple of 1000, so the jitter is a whole number.
calculateBackoff(attempt, baseDelayMs, maxDelayMs, random) ==
  LET exponentialDelay == baseDelayMs * Pow2(attempt - 1)
      jitter == (random * 3 * exponentialDelay) \div 1000
  IN IF exponentialDelay + jitter <= maxDelayMs
     THEN exponentialDelay + jitter
     ELSE maxDelayMs

\* lines 186-188 and 210: the loop test at the top of an iteration.  Either
\* fn is invoked (line 188) or the loop is left and lastError thrown (line 210).
\* [retry: the activation after it, events: what it called]
loopTest(activation) ==
  IF activation.attempt <= activation.maxAttempts
  THEN [retry |-> [activation EXCEPT !.pc = "awaiting"],
        events |-> <<FnCalled(activation.attempt)>>]
  ELSE [retry |-> [activation EXCEPT
                     !.pc = "rejected",
                     !.outcome = Rejected(IF activation.lastError = "undefined"
                                          THEN "retry" ELSE "fn",
                                          activation.lastError)],
        events |-> <<>>]

\* faulty variant of onAttemptFailed: > for >= at line 192
\* (C16_StopsAtOnce fails with it)
onAttemptFailed_pastMax(activation, error, random) ==
  LET failed == [activation EXCEPT !.lastError = error]
      thrown == [failed EXCEPT !.pc = "rejected", !.outcome = Rejected("fn", error)]
      delayMs == calculateBackoff(failed.attempt, failed.baseDelayMs,
                                  failed.maxDelayMs, random)
  IN IF failed.attempt > failed.maxAttempts
     THEN [retry |-> thrown, events |-> <<>>]
     ELSE IF ~shouldRetry(failed, error, failed.attempt)
          THEN [retry |-> thrown,
                events |-> <<ShouldRetryCalled(error, failed.attempt)>>]
          ELSE [retry |-> [failed EXCEPT !.pc = "sleeping"],
                events |-> <<ShouldRetryCalled(error, failed.attempt)>>
                           \o (IF failed.onRetry
                               THEN <<OnRetryCalled(error, failed.attempt, delayMs)>>
                               ELSE <<>>)
                           \o <<SleepCalled(failed.attempt, delayMs)>>]

\* faulty variant of onAttemptFailed: onRetry is told the number of the
\* attempt to come and is called after the sleep is started
\* (C18_OnRetryOncePerRetry fails with it)
onAttemptFailed_lateOnRetry(activation, error, random) ==
  LET failed == [activation EXCEPT !.lastError = error]
      thrown == [failed EXCEPT !.pc = "rejected", !.outcome = Rejected("fn", error)]
      delayMs == calculateBackoff(failed.attempt, failed.baseDelayMs,
                                  failed.maxDelayMs, random)
  IN IF failed.attempt >= failed.maxAttempts
     THEN [retry |-> thrown, events |-> <<>>]
     ELSE IF ~shouldRetry(failed, error, failed.attempt)
          THEN [retry |-> thrown,
                events |-> <<ShouldRetryCalled(error, failed.attempt)>>]
          ELSE [retry |-> [failed EXCEPT !.pc = "sleeping"],
                events |-> <<ShouldRetryCalled(error, failed.attempt)>>
                           \o <<SleepCalled(failed.attempt, delayMs)>>
                           \o (IF failed.onRetry
                               THEN <<OnRetryCalled(error, failed.attempt + 1, delayMs)>>
                               ELSE <<>>)]

\* lines 189-207: the catch block, fn having rejected with error.
\* [retry: the activation after it, events: what it called]
onAttemptFailed(activation, error, random) ==
  LET failed == [activation EXCEPT !.lastError = error]
      thrown == [failed EXCEPT !.pc = "rejected", !.outcome = Rejected("fn", error)]
      delayMs == calculateBackoff(failed.attempt, failed.baseDelayMs,
                                  failed.maxDelayMs, random)
  IN IF failed.attempt >= failed.maxAttempts
     THEN [retry |-> thrown, events |-> <<>>]
     ELSE IF ~shouldRetry(failed, error, failed.attempt)
          THEN [retry |-> thrown,
                events |-> <<ShouldRetryCalled(error, failed.attempt)>>]
          ELSE [retry |-> [failed EXCEPT !.pc = "sleeping"],
                events |-> <<ShouldRetryCalled(error, failed.attempt)>>
                           \o (IF failed.onRetry
                               THEN <<OnRetryCalled(error, failed.attempt, delayMs)>>
                               ELSE <<>>)
                           \o <<SleepCalled(failed.attempt, delayMs)>>]

\* withRetry(fn, opts), lines 176-188 up to the first await
WithRetry(opts) ==
  /\ retry.pc = "idle"
  /\ \E next \in {loopTest([pc |-> "idle", attempt |-> 1,
                             maxAttempts |-> opts.maxAttempts,
                             baseDelayMs |-> opts.baseDelayMs,
                             maxDelayMs |-> opts.maxDelayMs,
                             shouldRetry |-> opts.shouldRetry,
                             onRetry |-> opts.onRetry,
                             lastError |-> "undefined", outcome |-> Pending])} :
       /\ retry' = next.retry
       /\ events' = events \o next.events
  /\ UNCHANGED <<breakerVars, otherVars>>

\* faulty variant of RetryFnResolves: a success of a later attempt is
\* reported as "recovered" instead of fn's value
\* (C17_ResolvesWithFirstSuccess fails with it)
RetryFnResolves_replaced(v) ==
  /\ retry.pc = "awaiting"
  /\ retry' = [retry EXCEPT !.pc = "resolved",
                            !.outcome = Resolved(IF retry.attempt > 1 THEN "recovered" ELSE v)]
  /\ events' = events \o <<FnResolved(v, Cardinality({i \in DOMAIN events : events[i].kind = "fn"}))>>
  /\ UNCHANGED <<breakerVars, otherVars>>

\* fn's promise resolves with v: line 188 returns it
RetryFnResolves(v) ==
  /\ retry.pc = "awaiting"
  /\ retry' = [retry EXCEPT !.pc = "resolved", !.outcome = Resolved(v)]
  /\ events' = events \o <<FnResolved(v, Cardinality({i \in DOMAIN events : events[i].kind = "fn"}))>>
  /\ UNCHANGED <<breakerVars, otherVars>>

\* fn's promise rejects with error: lines 189-207 up to await sleep, or the throw
RetryFnRejects(error, random) ==
  /\ retry.pc = "awaiting"
  /\ \E next \in {onAttemptFailed(retry, error, random)} :
       /\ retry' = next.retry
       /\ events' = events
                     \o <<FnRejected(error, Cardinality({i \in DOMAIN events : events[i].kind = "fn"}))>>
                     \o next.events
  /\ UNCHANGED <<breakerVars, otherVars>>

\* the backoff timer fires: attempt++ and the loop test
SleepDone ==
  /\ retry.pc = "sleeping"
  /\ \E next \in {loopTest([retry EXCEPT !.attempt = @ + 1])} :
       /\ retry' = next.retry
       /\ events' = events \o next.events
  /\ UNCHANGED <<breakerVars, otherVars>>

\* calculateBackoff(attempt, baseDelayMs, maxDelayMs) for the next attempt,
\* with the options of the applications before it
CalculateBackoff(opts, random) ==
  /\ Len(backoff.delays) < MaxBackoffAttempts
  /\ backoff.delays # <<>> =>
       opts = [baseDelayMs |-> backoff.baseDelayMs, maxDelayMs |-> backoff.maxDelayMs]
  /\ backoff' = [baseDelayMs |-> opts.baseDelayMs,
                 maxDelayMs |-> opts.maxDelayMs,
                 delays |-> Append(backoff.delays,
                                   calculateBackoff(Len(backoff.delays) + 1,
                                                    opts.baseDelayMs, opts.maxDelayMs,
                                                    random))]
  /\ UNCHANGED <<breakerVars, retryVars, classified, appVars>>

(* -------------------------- isRetryableError --------------------------- *)

\* isRetryableError(error) is called; one application is followed
IsRetryableError(error) ==
  /\ ~classified.applied
  /\ classified' = [applied |-> TRUE, error |-> error, retryable |-> isRetryableError(error)]
  /\ UNCHANGED <<breakerVars, retryVars, backoff, appVars>>

(* ----------------------------- normalizers ----------------------------- *)

\* the normalizer of a service's client
normalize(service, error, id) ==
  IF service = "jira" THEN normalizeJiraError(error, id)
  ELSE normalizeConfluenceError(error, id)

\* normalizeJiraError(error) or normalizeConfluenceError(error) is called,
\* and called again on what it returned; one application is followed.  The
\* AppErrors that exist have identity 1, the calls create 2 and 3.
Normalize(service, error) ==
  /\ ~normalized.applied
  /\ normalized' = [applied |-> TRUE, service |-> service, error |-> error,
                    result |-> normalize(service, error, 2),
                    again |-> normalize(service, normalize(service, error, 2), 3)]
  /\ UNCHANGED <<breakerVars, retryVars, pureVars, client, serviceVars>>

(* ---------------------- JiraClient, ConfluenceClient --------------------- *)

\* the white space String.prototype.trim removes
WhiteSpace == {" ", "\t", "\n", "\r"}

RECURSIVE trimStart(_)
trimStart(s) ==
  IF s # <<>> /\ Head(s) \in WhiteSpace THEN trimStart(Tail(s)) ELSE s

RECURSIVE trimEnd(_)
trimEnd(s) ==
  IF s # <<>> /\ s[Len(s)] \in WhiteSpace THEN trimEnd(SubSeq(s, 1, Len(s) - 1)) ELSE s

\* String.prototype.trim
trim(s) == trimEnd(trimStart(s))

\* String.prototype.startsWith
startsWith(s, prefix) == Len(s) >= Len(prefix) /\ SubSeq(s, 1, Len(prefix)) = prefix

\* JSON.parse on the texts a search resolves with: JsonText parses to an
\* object, the other texts make it throw a SyntaxError
JSON_parse(text) ==
  IF text = JsonText
  THEN [ok |-> TRUE, value |-> ResultObject]
  ELSE [ok |-> FALSE,
        value |-> [kind |-> "Error", hasMessage |-> TRUE, code |-> "undefined",
                   message |-> <<"U", "n", "e", "x", "p", "e", "c", "t", "e", "d", " ", "t", "o", "k", "e", "n">>,
                   response |-> NoResponse, status |-> undefinedStatus]]

\* faulty variant of searchResult: the HTML check of lines 203-208 left out
\* (C24_HtmlSearchFailsOnce fails with it)
searchResult_parsesHtml(result) ==
  IF result.kind = "string"
  THEN IF JSON_parse(result.text).ok
       THEN [ok |-> TRUE, value |-> JSON_parse(result.text).value, parses |-> 1]
       ELSE [ok |-> FALSE,
             value |-> AppError_jiraApi(OperationErrorId, UnexpectedSearchFormat,
                                        undefinedStatus, JSON_parse(result.text).value),
             parses |-> 1]
  ELSE [ok |-> TRUE, value |-> result, parses |-> 0]

\* JiraClient.search, lines 202-217: what the operation does with the
\* result of the raw search call.
\* [ok: it returns value, else it throws value; parses: JSON.parse calls]
searchResult(result) ==
  IF result.kind = "string"
  THEN IF startsWith(trim(result.text), <<"<">>)
       THEN [ok |-> FALSE,
             value |-> AppError_jiraApi(OperationErrorId, SearchReturnedHtml, 401, Undefined),
             parses |-> 0]
       ELSE IF JSON_parse(result.text).ok
            THEN [ok |-> TRUE, value |-> JSON_parse(result.text).value, parses |-> 1]
            ELSE [ok |-> FALSE,
                  value |-> AppError_jiraApi(OperationErrorId, UnexpectedSearchFormat,
                                             undefinedStatus, JSON_parse(result.text).value),
                  parses |-> 1]
  ELSE [ok |-> TRUE, value |-> result, parses |-> 0]

\* the code of an operation after its raw call resolved
operationResult(operation, result) ==
  IF operation = "search" THEN searchResult(result)
  ELSE [ok |-> TRUE, value |-> result, parses |-> 0]

\* faulty variant of executeCatch: the rejection is rethrown as it is
\* (C21_EveryRejectionIsAppError fails with it)
executeCatch_rethrows(service, error) == error

\* execute, part_007 lines 161-163 and ConfluenceClient.ts lines 171-173:
\* what the catch block throws
executeCatch(service, error) == normalize(service, error, NormalizerErrorId)

\* a client operation is called: execute up to the first await, that is
\* withCircuitBreaker up to `await fn()`, fn being withRetry up to the
\* await of the operation, the operation up to the await of its raw SDK
\* call.  A refused call settles at once.  One client is followed: the
\* operations after the first are on the same client.
ClientExecute(service, operation) ==
  /\ client.pc \in {"idle", "settled"}
  /\ client.pc = "settled" => service = client.service
  /\ operation \in Operations(service)
  /\ \E opts \in {ClientCircuitBreakerOptions(service)} :
     \E got \in {getCircuit(service)} :
     \E circuit \in {got.objects[got.id]} :
     \E checked \in {afterOpenCheck(circuit, Now, opts)} :
     \E refused \in {refusedOpen(circuit, Now, opts) \/ refusedHalfOpen(checked, opts)} :
     \E next \in {loopTest([IdleRetry EXCEPT
                              !.attempt = 1,
                              !.maxAttempts = ClientRetryOptions(service).maxAttempts,
                              !.baseDelayMs = ClientRetryOptions(service).baseDelayMs,
                              !.maxDelayMs = ClientRetryOptions(service).maxDelayMs,
                              !.shouldRetry = ClientRetryOptions(service).shouldRetry,
                              !.onRetry = ClientRetryOptions(service).onRetry])} :
       /\ circuits' = got.circuits
       /\ objects' = [got.objects EXCEPT
                        ![got.id] = IF refused THEN checked ELSE countTrial(checked)]
       /\ retry' = IF refused THEN IdleRetry ELSE next.retry
       /\ events' = IF refused THEN <<>> ELSE next.events
       /\ client' = [pc |-> IF refused THEN "settled" ELSE "running",
                     service |-> service, operation |-> operation,
                     circuit |-> got.id, now |-> Now, raw |-> <<>>, parses |-> 0,
                     outcome |-> IF refused
                                 THEN Rejected("breaker",
                                        executeCatch(service,
                                          AppError_circuitBreakerOpen(BreakerErrorId, service)))
                                 ELSE Pending]
  /\ UNCHANGED <<calls, settled, clock, failRun, notified, pureVars, normalized, serviceVars>>

\* the operation's promise resolves with value: withRetry returns it (line
\* 188), withCircuitBreaker records the success (lines 98-106), execute
\* returns it
OperationResolves(rawOutcome, value, parses) ==
  /\ retry' = [retry EXCEPT !.pc = "resolved", !.outcome = Resolved(value)]
  /\ events' = events \o <<FnResolved(value, Cardinality({i \in DOMAIN events : events[i].kind = "fn"}))>>
  /\ objects' = [objects EXCEPT ![client.circuit] = onSuccess(@)]
  /\ client' = [client EXCEPT !.pc = "settled", !.raw = Append(@, rawOutcome),
                              !.parses = @ + parses, !.outcome = Resolved(value)]

\* faulty variant of OperationRejects: the retrier wraps the breaker, so that
\* every failed attempt is a failure to the breaker
\* (C36_OneFailurePerOperation fails with it)
OperationRejects_breakerInside(rawOutcome, error, parses, random) ==
  \E next \in {onAttemptFailed(retry, error, random)} :
  \E opts \in {ClientCircuitBreakerOptions(client.service)} :
  \E after \in {onFailure(objects[client.circuit], client.now, opts, error)} :
    /\ after.failureCount <= MaxFailures
    /\ retry' = next.retry
    /\ events' = events
                  \o <<FnRejected(error, Cardinality({i \in DOMAIN events : events[i].kind = "fn"}))>>
                  \o next.events
    /\ objects' = [objects EXCEPT ![client.circuit] = after]
    /\ client' = IF next.retry.pc = "rejected"
                 THEN [client EXCEPT
                         !.pc = "settled", !.raw = Append(@, rawOutcome),
                         !.parses = @ + parses,
                         !.outcome = Rejected(
                            "fn", executeCatch(client.service, next.retry.outcome.payload))]
                 ELSE [client EXCEPT !.raw = Append(@, rawOutcome), !.parses = @ + parses]

\* the operation's promise rejects with error: the catch block of withRetry
\* (lines 189-207); when that throws, the catch block of withCircuitBreaker
\* (lines 107-122) and the catch block of execute
OperationRejects(rawOutcome, error, parses, random) ==
  \E next \in {onAttemptFailed(retry, error, random)} :
  \E opts \in {ClientCircuitBreakerOptions(client.service)} :
  \E after \in {IF next.retry.pc = "rejected"
                THEN onFailure(objects[client.circuit], client.now, opts,
                               next.retry.outcome.payload)
                ELSE objects[client.circuit]} :
    /\ after.failureCount <= MaxFailures
    /\ retry' = next.retry
    /\ events' = events
                  \o <<FnRejected(error, Cardinality({i \in DOMAIN events : events[i].kind = "fn"}))>>
                  \o next.events
    /\ objects' = [objects EXCEPT ![client.circuit] = after]
    /\ client' = IF next.retry.pc = "rejected"
                 THEN [client EXCEPT
                         !.pc = "settled", !.raw = Append(@, rawOutcome),
                         !.parses = @ + parses,
                         !.outcome = Rejected(
                            "fn", executeCatch(client.service, next.retry.outcome.payload))]
                 ELSE [client EXCEPT !.raw = Append(@, rawOutcome), !.parses = @ + parses]

\* the raw SDK call resolves with result: the rest of the operation runs
RawResolves(result) ==
  /\ client.pc = "running"
  /\ retry.pc = "awaiting"
  /\ result \in RawResults(client.operation)
  /\ \E done \in {operationResult(client.operation, result)} :
     \E rawOutcome \in {[kind |-> "resolved", value |-> result]} :
       IF done.ok
       THEN OperationResolves(rawOutcome, done.value, done.parses)
       ELSE \E random \in ClientRandoms :
              OperationRejects(rawOutcome, done.value, done.parses, random)
  /\ UNCHANGED <<circuits, calls, settled, clock, failRun, notified, pureVars, normalized, serviceVars>>

\* the raw SDK call rejects with error: so does the operation
RawRejects(error) ==
  /\ client.pc = "running"
  /\ retry.pc = "awaiting"
  /\ \E random \in ClientRandoms :
       OperationRejects([kind |-> "rejected", value |-> error], error, 0, random)
  /\ UNCHANGED <<circuits, calls, settled, clock, failRun, notified, pureVars, normalized, serviceVars>>

(* ----------------------------- handlers.ts ------------------------------ *)

\* the message of createJiraClientFromEnv when JIRA_BASE_URL is not set
MissingBaseUrl ==
  <<"M", "i", "s", "s", "i", "n", "g", " ", "J", "I", "R", "A", "_", "B", "A", "S", "E", "_", "U", "R", "L", " ", "e", "n", "v", "i", "r", "o", "n", "m", "e", "n", "t", " ", "v", "a", "r", "i", "a", "b", "l", "e", " ", "(", "o", "r", " ", "l", "e", "g", "a", "c", "y", " ", "J", "I", "R", "A", "_", "H", "O", "S", "T", ")", ".">>

RECURSIVE find(_, _)
\* lines 282-284: the first transition whose lower-cased name is the
\* lower-cased status or whose id is the status; <<>> when there is none,
\* else the one-element sequence of it
find(transitions, status) ==
  IF transitions = <<>> THEN <<>>
  ELSE IF \/ toLowerCase(Head(transitions).name) = toLowerCase(status)
          \/ Head(transitions).id = status
       THEN <<Head(transitions)>>
       ELSE find(Tail(transitions), status)

\* lines 287-290: the message of the failure when no transition matches
cannotTransition(transitions, status) ==
  LET available ==
        join([i \in DOMAIN transitions |->
                <<"\"">> \o transitions[i].name \o <<"\"", " ", "(", "i", "d", ":", " ">>
                \o transitions[i].id \o <<")">>],
             <<",", " ">>)
  IN <<"C", "a", "n", "n", "o", "t", " ", "t", "r", "a", "n", "s", "i", "t", "i", "o", "n", " ", "t", "o", " ", "\"">> \o status
     \o <<"\"", ".", " ", "A", "v", "a", "i", "l", "a", "b", "l", "e", " ", "t", "r", "a", "n", "s", "i", "t", "i", "o", "n", "s", ":", " ">>
     \o (IF available # <<>> THEN available ELSE <<"n", "o", "n", "e">>)

\* handleJiraTransition(issueIdOrKey, { status }), lines 277-279 up to the
\* await: createJiraClientFromEnv throws when the environment is not
\* configured, else client.getTransitions is called
HandleJiraTransition(status, configured) ==
  /\ handler.pc = "idle"
  /\ handler' = IF configured
                THEN [handler EXCEPT !.pc = "getTransitions", !.status = status,
                                     !.called = <<[fn |-> "getTransitions", id |-> <<>>]>>]
                ELSE [handler EXCEPT !.pc = "rejected", !.status = status,
                                     !.outcome = Rejected("config",
                                        AppError_config(OperationErrorId, MissingBaseUrl,
                                                        Undefined))]
  /\ UNCHANGED <<breakerVars, retryVars, pureVars, client, normalized, fieldService, issueService, creation>>

\* faulty variant of GetTransitionsResolves: the transition is looked up by
\* name only, and the first transition is taken when none matches
\* (C25_TransitionResolvedFirst fails with it)
GetTransitionsResolves_firstTransition(transitions) ==
  /\ handler.pc = "getTransitions"
  /\ handler' = IF transitions = <<>>
                THEN [handler EXCEPT
                        !.pc = "rejected", !.transitions = transitions,
                        !.outcome = Rejected("handler",
                                             cannotTransition(transitions, handler.status))]
                ELSE [handler EXCEPT
                        !.pc = "transitionIssue", !.transitions = transitions,
                        !.called = Append(@, [fn |-> "transitionIssue",
                                              id |-> transitions[1].id])]
  /\ UNCHANGED <<breakerVars, retryVars, pureVars, client, normalized, fieldService, issueService, creation>>

\* client.getTransitions resolves: lines 281-293 up to the await of
\* client.transitionIssue, or the throw of line 288
GetTransitionsResolves(transitions) ==
  /\ handler.pc = "getTransitions"
  /\ \E found \in {find(transitions, handler.status)} :
       handler' = IF found = <<>>
                  THEN [handler EXCEPT
                          !.pc = "rejected", !.transitions = transitions,
                          !.outcome = Rejected("handler",
                                               cannotTransition(transitions, handler.status))]
                  ELSE [handler EXCEPT
                          !.pc = "transitionIssue", !.transitions = transitions,
                          !.called = Append(@, [fn |-> "transitionIssue",
                                                id |-> found[1].id])]
  /\ UNCHANGED <<breakerVars, retryVars, pureVars, client, normalized, fieldService, issueService, creation>>

\* client.getTransitions rejects: the handler rejects with its error
GetTransitionsRejects(error) ==
  /\ handler.pc = "getTransitions"
  /\ handler' = [handler EXCEPT !.pc = "rejected", !.outcome = Rejected("client", error)]
  /\ UNCHANGED <<breakerVars, retryVars, pureVars, client, normalized, fieldService, issueService, creation>>

\* client.transitionIssue resolves: line 294, the handler returns
TransitionIssueResolves ==
  /\ handler.pc = "transitionIssue"
  /\ handler' = [handler EXCEPT !.pc = "resolved", !.outcome = Resolved("undefined")]
  /\ UNCHANGED <<breakerVars, retryVars, pureVars, client, normalized, fieldService, issueService, creation>>

\* client.transitionIssue rejects: the handler rejects with its error
TransitionIssueRejects(error) ==
  /\ handler.pc = "transitionIssue"
  /\ handler' = [handler EXCEPT !.pc = "rejected", !.outcome = Rejected("client", error)]
  /\ UNCHANGED <<breakerVars, retryVars, pureVars, client, normalized, fieldService, issueService, creation>>

(* ----------------------------- FieldService ----------------------------- *)

\* getCandidatesForField, lines 71-93
getCandidatesForField(config, logicalName) ==
  CASE logicalName = "acceptance" ->
         IF config.acceptanceFieldCandidates # undefinedList
         THEN config.acceptanceFieldCandidates
         ELSE <<<<"A", "c", "c", "e", "p", "t", "a", "n", "c", "e", " ", "C", "r", "i", "t", "e", "r", "i", "a">>,
                <<"a", "c", "c", "e", "p", "t", "a", "n", "c", "e", "C", "r", "i", "t", "e", "r", "i", "a">>,
                <<"A", "c", "c", "e", "p", "t", "a", "n", "c", "e">>>>
    [] logicalName = "epic" ->
         IF config.epicFieldCandidates # undefinedList
         THEN config.epicFieldCandidates
         ELSE <<<<"E", "p", "i", "c", " ", "L", "i", "n", "k">>,
                <<"e", "p", "i", "c", "L", "i", "n", "k">>,
                <<"P", "a", "r", "e", "n", "t", " ", "L", "i", "n", "k">>,
                <<"E", "p", "i", "c">>>>
    [] logicalName = "storyPoints" ->
         <<<<"S", "t", "o", "r", "y", " ", "P", "o", "i", "n", "t", "s">>,
           <<"s", "t", "o", "r", "y", "P", "o", "i", "n", "t", "s">>,
           <<"S", "t", "o", "r", "y", " ", "p", "o", "i", "n", "t", " ", "e", "s", "t", "i", "m", "a", "t", "e">>>>
    [] logicalName = "sprint" ->
         <<<<"S", "p", "r", "i", "n", "t">>, <<"S", "p", "r", "i", "n", "t", "s">>>>

\* getPatternsForField, lines 95-108.  Each pattern is literal text with \s*
\* in it and the flag i: the sequence of its literal parts
getPatternsForField(logicalName) ==
  CASE logicalName = "acceptance" ->
         <<<<<<"a", "c", "c", "e", "p", "t", "a", "n", "c", "e">>, <<"c", "r", "i", "t", "e", "r", "i", "a">>>>,
           <<<<"a", "c", "c", "e", "p", "t", "a", "n", "c", "e">>>>>>
    [] logicalName = "epic" ->
         <<<<<<"e", "p", "i", "c">>, <<"l", "i", "n", "k">>>>,
           <<<<"p", "a", "r", "e", "n", "t">>, <<"l", "i", "n", "k">>>>>>
    [] logicalName = "storyPoints" ->
         <<<<<<"s", "t", "o", "r", "y">>, <<"p", "o", "i", "n", "t">>>>,
           <<<<"p", "o", "i", "n", "t">>, <<"e", "s", "t", "i", "m", "a", "t", "e">>>>>>
    [] logicalName = "sprint" ->
         <<<<<<"s", "p", "r", "i", "n", "t">>>>>>

RECURSIVE matchesAt(_, _, _)
\* the parts match s from position i on: a part matches the same letters in
\* either case, \s* any run of white space
matchesAt(parts, s, i) ==
  IF parts = <<>> THEN TRUE
  ELSE /\ i + Len(Head(parts)) - 1 <= Len(s)
       /\ toLowerCase(SubSeq(s, i, i + Len(Head(parts)) - 1)) = toLowerCase(Head(parts))
       /\ \/ Tail(parts) = <<>>
          \/ \E k \in (i + Len(Head(parts)))..(Len(s) + 1) :
               /\ \A w \in (i + Len(Head(parts)))..(k - 1) : s[w] \in WhiteSpace
               /\ matchesAt(Tail(parts), s, k)

\* RegExp.prototype.test: the pattern matches somewhere in s
test(pattern, s) == \E i \in 1..(Len(s) + 1) : matchesAt(pattern, s, i)

\* line 55-59: fields.find by candidate: the first field whose lower-cased
\* name or id is the lower-cased candidate; <<>> when there is none, else the
\* one-element sequence of it
RECURSIVE findByCandidate(_, _)
findByCandidate(fields, candidate) ==
  IF fields = <<>> THEN <<>>
  ELSE IF \/ toLowerCase(Head(fields).name) = toLowerCase(candidate)
          \/ toLowerCase(Head(fields).id) = toLowerCase(candidate)
       THEN <<Head(fields)>>
       ELSE findByCandidate(Tail(fields), candidate)

\* line 64: fields.find by pattern: the first field whose name the pattern
\* matches
RECURSIVE findByPattern(_, _)
findByPattern(fields, pattern) ==
  IF fields = <<>> THEN <<>>
  ELSE IF test(pattern, Head(fields).name)
       THEN <<Head(fields)>>
       ELSE findByPattern(Tail(fields), pattern)

\* faulty variant of byCandidates: the catalog is walked first, and the
\* first field that is any of the candidates is taken
\* (C27_DiscoveryOrder fails with it)
byCandidates_catalogOrder(fields, candidates) ==
  IF \E k \in DOMAIN fields, i \in DOMAIN candidates :
       findByCandidate(<<fields[k]>>, candidates[i]) # <<>>
  THEN fields[Min({k \in DOMAIN fields :
                     \E i \in DOMAIN candidates :
                       findByCandidate(<<fields[k]>>, candidates[i]) # <<>>})].id
  ELSE undefinedString

\* lines 54-61: the loop over the candidates
RECURSIVE byCandidates(_, _)
byCandidates(fields, candidates) ==
  IF candidates = <<>> THEN undefinedString
  ELSE LET field == findByCandidate(fields, Head(candidates))
       IN IF field # <<>> THEN field[1].id ELSE byCandidates(fields, Tail(candidates))

\* lines 63-66: the loop over the patterns
RECURSIVE byPatterns(_, _)
byPatterns(fields, patterns) ==
  IF patterns = <<>> THEN undefinedString
  ELSE LET field == findByPattern(fields, Head(patterns))
       IN IF field # <<>> THEN field[1].id ELSE byPatterns(fields, Tail(patterns))

\* discoverFieldId, lines 43-69, after getFields returned the fields
discoverFieldId(fields, config, logicalName) ==
  IF fields = <<>> THEN undefinedString
  ELSE LET candidates == getCandidatesForField(config, logicalName)
           patterns == getPatternsForField(logicalName)
           byCandidate == byCandidates(fields, candidates)
       IN IF byCandidate # undefinedString THEN byCandidate
          ELSE byPatterns(fields, patterns)

\* line 26: if (configuredId): a string that is there and not empty
truthy(string) == string # undefinedString /\ string # <<>>

\* the message of line 36
UnableToResolve(logicalName) ==
  <<"U", "n", "a", "b", "l", "e", " ", "t", "o", " ", "r", "e", "s", "o", "l", "v", "e", " ",
    "f", "i", "e", "l", "d", " ", "I", "D", " ", "f", "o", "r", " ", "\"">>
  \o LogicalNameText(logicalName)
  \o <<"\"", ".", " ", "C", "o", "n", "f", "i", "g", "u", "r", "e", " ", "i", "t", " ", "i", "n",
       " ", "j", "i", "r", "a", ".", "c", "o", "n", "f", "i", "g", ".", "j", "s", "o", "n",
       " ", "o", "r", " ", "e", "n", "s", "u", "r", "e", " ", "t", "h", "e", " ", "f", "i",
       "e", "l", "d", " ", "e", "x", "i", "s", "t", "s", " ", "i", "n", " ", "J", "i", "r",
       "a", ".">>

\* how the method settles once resolveFieldId has the field id: lines 28-30,
\* and lines 35-40 for assertFieldId
resolutionOutcome(method, logicalName, fieldId) ==
  IF method = "assertFieldId" /\ ~truthy(fieldId)
  THEN Rejected("assertFieldId",
                AppError_validation(FieldErrorId, UnableToResolve(logicalName), logicalName))
  ELSE Resolved(fieldId)

\* new FieldService({ jiraConfig, client }), lines 19-22
NewFieldService(config, jiraClient) ==
  /\ ~fieldService.constructed
  /\ fieldService' = [fieldService EXCEPT !.constructed = TRUE, !.config = config,
                                          !.client = jiraClient]
  /\ UNCHANGED <<breakerVars, retryVars, pureVars, client, normalized, handler, issueService, creation>>

\* faulty variant of resolveFieldId: the catalog is consulted before the
\* configured mapping (C26_ConfiguredIdWins fails with it)
resolveFieldId_discoversFirst(r, method, logicalName) ==
  IF ~fieldService.cachedFields.isNull
  THEN [fieldService EXCEPT
          !.started = @ + 1,
          !.resolutions[r] =
            [pc |-> "done", method |-> method, logicalName |-> logicalName,
             getFields |-> "cached", fields |-> fieldService.cachedFields.fields,
             outcome |-> resolutionOutcome(method, logicalName,
                            discoverFieldId(fieldService.cachedFields.fields,
                                            fieldService.config, logicalName))]]
  ELSE IF ~fieldService.client.present
  THEN [fieldService EXCEPT
          !.started = @ + 1,
          !.resolutions[r] =
            [pc |-> "done", method |-> method, logicalName |-> logicalName,
             getFields |-> "no client", fields |-> <<>>,
             outcome |-> resolutionOutcome(method, logicalName, undefinedString)]]
  ELSE [fieldService EXCEPT
          !.started = @ + 1, !.listFieldsCalls = @ + 1,
          !.resolutions[r] =
            [pc |-> "listFields", method |-> method, logicalName |-> logicalName,
             getFields |-> "listFields", fields |-> <<>>, outcome |-> Pending]]

\* resolveFieldId, lines 24-31, with discoverFieldId and getFields (lines
\* 110-125) up to the await of client.listFields: the configured id when
\* there is one; else the fields are the cached ones, none without a client,
\* and else client.listFields is called and the activation waits
resolveFieldId(r, method, logicalName) ==
  IF truthy(fieldService.config.fieldMapping[logicalName])
  THEN [fieldService EXCEPT
          !.started = @ + 1,
          !.resolutions[r] =
            [pc |-> "done", method |-> method, logicalName |-> logicalName,
             getFields |-> "-", fields |-> <<>>,
             outcome |-> resolutionOutcome(method, logicalName,
                            fieldService.config.fieldMapping[logicalName])]]
  ELSE IF ~fieldService.cachedFields.isNull
  THEN [fieldService EXCEPT
          !.started = @ + 1,
          !.resolutions[r] =
            [pc |-> "done", method |-> method, logicalName |-> logicalName,
             getFields |-> "cached", fields |-> fieldService.cachedFields.fields,
             outcome |-> resolutionOutcome(method, logicalName,
                            discoverFieldId(fieldService.cachedFields.fields,
                                            fieldService.config, logicalName))]]
  ELSE IF ~fieldService.client.present
  THEN [fieldService EXCEPT
          !.started = @ + 1,
          !.resolutions[r] =
            [pc |-> "done", method |-> method, logicalName |-> logicalName,
             getFields |-> "no client", fields |-> <<>>,
             outcome |-> resolutionOutcome(method, logicalName, undefinedString)]]
  ELSE [fieldService EXCEPT
          !.started = @ + 1, !.listFieldsCalls = @ + 1,
          !.resolutions[r] =
            [pc |-> "listFields", method |-> method, logicalName |-> logicalName,
             getFields |-> "listFields", fields |-> <<>>, outcome |-> Pending]]

\* the slot a new activation takes: the first one with no activation waiting
\* in it, 0 when there is none
FreeResolution ==
  IF \A r \in Resolutions : fieldService.resolutions[r].pc = "listFields" THEN 0
  ELSE Min({r \in Resolutions : fieldService.resolutions[r].pc # "listFields"})

\* service.resolveFieldId(logicalName) is called
ResolveFieldId(r, logicalName) ==
  /\ fieldService.constructed
  /\ r = FreeResolution
  /\ fieldService.started < MaxFieldCalls
  /\ fieldService' = resolveFieldId(r, "resolveFieldId", logicalName)
  /\ UNCHANGED <<breakerVars, retryVars, pureVars, client, normalized, handler, issueService, creation>>

\* service.assertFieldId(logicalName) is called: line 34 calls resolveFieldId
AssertFieldId(r, logicalName) ==
  /\ fieldService.constructed
  /\ r = FreeResolution
  /\ fieldService.started < MaxFieldCalls
  /\ fieldService' = resolveFieldId(r, "assertFieldId", logicalName)
  /\ UNCHANGED <<breakerVars, retryVars, pureVars, client, normalized, handler, issueService, creation>>

\* client.listFields resolves, lines 119-121: the fields are cached, and
\* discoverFieldId goes on with them
ListFieldsResolves(r) ==
  /\ fieldService.resolutions[r].pc = "listFields"
  /\ fieldService' =
       [fieldService EXCEPT
          !.cachedFields = Cached(fieldService.client.fields),
          !.resolutions[r] =
            [@ EXCEPT !.pc = "done", !.getFields = "resolved",
                      !.fields = fieldService.client.fields,
                      !.outcome = resolutionOutcome(fieldService.resolutions[r].method,
                                     fieldService.resolutions[r].logicalName,
                                     discoverFieldId(fieldService.client.fields,
                                                     fieldService.config,
                                                     fieldService.resolutions[r].logicalName))]]
  /\ UNCHANGED <<breakerVars, retryVars, pureVars, client, normalized, handler, issueService, creation>>

\* faulty variant of ListFieldsRejects: the catch of line 122 is missing,
\* and the error of the fetch goes to the caller
\* (C29_FetchFailureSwallowed fails with it)
ListFieldsRejects_propagates(r, error) ==
  /\ fieldService.resolutions[r].pc = "listFields"
  /\ fieldService' =
       [fieldService EXCEPT
          !.resolutions[r] =
            [@ EXCEPT !.pc = "done", !.getFields = "rejected", !.fields = <<>>,
                      !.outcome = Rejected("listFields", error)]]
  /\ UNCHANGED <<breakerVars, retryVars, pureVars, client, normalized, handler, issueService, creation>>

\* client.listFields rejects, lines 122-124: the catch returns no fields and
\* leaves cachedFields as it is
ListFieldsRejects(r, error) ==
  /\ fieldService.resolutions[r].pc = "listFields"
  /\ fieldService' =
       [fieldService EXCEPT
          !.resolutions[r] =
            [@ EXCEPT !.pc = "done", !.getFields = "rejected", !.fields = <<>>,
                      !.outcome = resolutionOutcome(fieldService.resolutions[r].method,
                                     fieldService.resolutions[r].logicalName,
                                     discoverFieldId(<<>>, fieldService.config,
                                                     fieldService.resolutions[r].logicalName))]]
  /\ UNCHANGED <<breakerVars, retryVars, pureVars, client, normalized, handler, issueService, creation>>

\* clearCache, lines 127-129.  listFieldsCalls counts the calls since
\* construction or the last clearCache
ClearCache ==
  /\ fieldService.constructed
  /\ fieldService' = [fieldService EXCEPT !.cachedFields = null, !.listFieldsCalls = 0]
  /\ UNCHANGED <<breakerVars, retryVars, pureVars, client, normalized, handler, issueService, creation>>

(* ----------------------------- IssueService ----------------------------- *)

\* the condition `if (value)` on an input attribute: a string that is not
\* empty (a number is tested with !== undefined in the code)
truthyValue(value) == value.type = "string" /\ value.text # <<>>

\* formatAcceptanceAsTable (part_011 lines 1163-1177) on the acceptance texts
\* of IssueInputs: the empty text and a text without a Given/when/then
\* line come back as they are, the bullet becomes a table of one row
formatAcceptanceAsTable(text) == IF text = GivenWhenThen THEN GivenWhenThenTable ELSE text

\* fields[key] = value
setField(fields, key, value) ==
  [k \in DOMAIN fields \cup {key} |-> IF k = key THEN value ELSE fields[k]]

\* faulty variant of assign: the keys the target has keep their values
\* (C30_CustomFieldsMergedLast fails with it)
assign_targetWins(target, source) ==
  [k \in DOMAIN target \cup DOMAIN source |->
     IF k \in DOMAIN target THEN target[k] ELSE source[k]]

\* Object.assign(target, source)
assign(target, source) ==
  [k \in DOMAIN target \cup DOMAIN source |->
     IF k \in DOMAIN source THEN source[k] ELSE target[k]]

\* fields with the key set when the condition holds
setFieldIf(condition, fields, key, value) ==
  IF condition THEN setField(fields, key, value) ELSE fields

\* buildCreatePayload, lines 90-110: the fields before the first
\* resolveFieldId
createFields(input) ==
  LET required == [k \in {<<"p", "r", "o", "j", "e", "c", "t">>, <<"i", "s", "s", "u", "e", "t", "y", "p", "e">>, <<"s", "u", "m", "m", "a", "r", "y">>} |->
                     IF k = <<"p", "r", "o", "j", "e", "c", "t">> THEN KeyObject(input.project.text)
                     ELSE IF k = <<"i", "s", "s", "u", "e", "t", "y", "p", "e">> THEN NameObject(input.issueType.text)
                     ELSE input.summary]
      described == setFieldIf(truthyValue(input.description), required,
                              <<"d", "e", "s", "c", "r", "i", "p", "t", "i", "o", "n">>, input.description)
      assigned == setFieldIf(truthyValue(input.assignee), described,
                             <<"a", "s", "s", "i", "g", "n", "e", "e">>, NameObject(input.assignee.text))
      prioritized == setFieldIf(truthyValue(input.priority), assigned,
                                <<"p", "r", "i", "o", "r", "i", "t", "y">>, NameObject(input.priority.text))
  IN setFieldIf(input.labels.type = "array" /\ Len(input.labels.items) > 0, prioritized,
                <<"l", "a", "b", "e", "l", "s">>, input.labels)

\* buildUpdatePayload, lines 144-164: the fields before the first
\* resolveFieldId
updateFields(input) ==
  LET summarized == setFieldIf(input.summary # undefinedValue, <<>>,
                               <<"s", "u", "m", "m", "a", "r", "y">>, input.summary)
      described == setFieldIf(input.description # undefinedValue, summarized,
                              <<"d", "e", "s", "c", "r", "i", "p", "t", "i", "o", "n">>, input.description)
      assigned == setFieldIf(input.assignee # undefinedValue, described,
                             <<"a", "s", "s", "i", "g", "n", "e", "e">>,
                             IF truthyValue(input.assignee)
                             THEN NameObject(input.assignee.text) ELSE nullValue)
      prioritized == setFieldIf(input.priority # undefinedValue, assigned,
                                <<"p", "r", "i", "o", "r", "i", "t", "y">>, NameObject(input.priority.text))
  IN setFieldIf(input.labels # undefinedValue, prioritized, <<"l", "a", "b", "e", "l", "s">>, input.labels)

\* the logical fields a payload is built from, in the order of the code
Stages == <<"acceptance", "epic", "storyPoints">>

\* the conditions of lines 112, 122, 129 (create) and 166, 176, 183 (update)
stageNeeded(method, input, stage) ==
  IF method = "updateIssue" \/ stage = "storyPoints"
  THEN input[stage] # undefinedValue
  ELSE truthyValue(input[stage])

\* the value the resolved field gets: lines 115-118, 125, 132 (create) and
\* 169-172, 179, 186 (update)
stageValue(method, input, stage, formatAcceptance) ==
  CASE stage = "acceptance" ->
         IF formatAcceptance
         THEN String(formatAcceptanceAsTable(input.acceptance.text))
         ELSE input.acceptance
    [] stage = "epic" ->
         IF method = "updateIssue" /\ ~truthyValue(input.epic) THEN nullValue
         ELSE input.epic
    [] stage = "storyPoints" -> input.storyPoints

\* the first stage after `from` that resolves its field, 0 when there is none
nextStage(method, input, from) ==
  IF \E n \in DOMAIN Stages : n > from /\ stageNeeded(method, input, Stages[n])
  THEN Min({n \in DOMAIN Stages : n > from /\ stageNeeded(method, input, Stages[n])})
  ELSE 0

\* the call of resolveFieldId, of client.createIssue, of client.updateIssue
Call(fn, logicalName, fields) == [fn |-> fn, logicalName |-> logicalName, fields |-> fields]

\* lines 136-140 (create) and 190-194 (update), then lines 65 and 78-82:
\* customFields are assigned, and the payload goes to the client; an update
\* with no fields returns without a call
send(svc, fields) ==
  LET payload == IF svc.input.customFields.defined
                 THEN assign(fields, svc.input.customFields.entries)
                 ELSE fields
  IN IF svc.method = "updateIssue" /\ DOMAIN payload = {}
     THEN [svc EXCEPT !.pc = "done", !.fields = payload,
                      !.outcome = Resolved(undefinedValue)]
     ELSE [svc EXCEPT !.pc = svc.method, !.fields = payload,
                      !.called = Append(@, Call(svc.method, "-", payload))]

\* the build goes on after stage `from`: to the next resolveFieldId, or to
\* the end
proceed(svc, fields, from) ==
  IF nextStage(svc.method, svc.input, from) # 0
  THEN [svc EXCEPT
          !.pc = Stages[nextStage(svc.method, svc.input, from)],
          !.fields = fields,
          !.called = Append(@, Call("resolveFieldId",
                                    Stages[nextStage(svc.method, svc.input, from)], <<>>))]
  ELSE send(svc, fields)

\* the issues of CreateIssueInputSchema (lines 8-12) for the input, as
\* `path: message`
createIssues(input) ==
  (IF input.project.text = <<>>
   THEN <<<<"p", "r", "o", "j", "e", "c", "t", ":", " ", "P", "r", "o", "j", "e", "c", "t", " ", "k", "e", "y", " ", "i", "s", " ", "r", "e", "q", "u", "i", "r", "e", "d">>>> ELSE <<>>)
  \o (IF input.issueType.text = <<>>
      THEN <<<<"i", "s", "s", "u", "e", "T", "y", "p", "e", ":", " ", "I", "s", "s", "u", "e", " ", "t", "y", "p", "e", " ", "i", "s", " ", "r", "e", "q", "u", "i", "r", "e", "d">>>> ELSE <<>>)
  \o (IF input.summary.text = <<>>
      THEN <<<<"s", "u", "m", "m", "a", "r", "y", ":", " ", "S", "u", "m", "m", "a", "r", "y", " ", "i", "s", " ", "r", "e", "q", "u", "i", "r", "e", "d">>>> ELSE <<>>)

\* the message of line 61
InvalidIssueInput(issues) ==
  <<"I", "n", "v", "a", "l", "i", "d", " ", "i", "s", "s", "u", "e", " ", "i", "n", "p", "u", "t", ":", " ">> \o join(issues, <<";", " ">>)

\* new IssueService({ client, fieldService, formatAcceptanceAsTable }), lines
\* 49-53
NewIssueService(fieldMap, formatOption) ==
  /\ issueService.pc = "unconstructed"
  /\ issueService' = [issueService EXCEPT !.pc = "idle", !.fieldMap = fieldMap,
                                          !.formatAcceptance = (formatOption # "false")]
  /\ UNCHANGED <<breakerVars, retryVars, pureVars, client, normalized, handler, fieldService, creation>>

\* createIssue(input), lines 55-66, up to the first await: an invalid input
\* is refused, else the payload is built up to the first resolveFieldId
CreateIssue(input) ==
  /\ issueService.pc = "idle"
  /\ issueService' =
       IF createIssues(input) # <<>>
       THEN [issueService EXCEPT
               !.pc = "done", !.method = "createIssue", !.input = input,
               !.outcome = Rejected("createIssue",
                              AppError_validation(IssueErrorId,
                                 InvalidIssueInput(createIssues(input)), "undefined"))]
       ELSE proceed([issueService EXCEPT !.method = "createIssue", !.input = input],
                    createFields(input), 0)
  /\ UNCHANGED <<breakerVars, retryVars, pureVars, client, normalized, handler, fieldService, creation>>

\* updateIssue(issueKey, updates), lines 68-83, up to the first await: every
\* attribute of UpdateIssueInputSchema is optional
UpdateIssue(input) ==
  /\ issueService.pc = "idle"
  /\ issueService' =
       proceed([issueService EXCEPT !.method = "updateIssue", !.input = input],
               updateFields(input), 0)
  /\ UNCHANGED <<breakerVars, retryVars, pureVars, client, normalized, handler, fieldService, creation>>

\* fieldService.resolveFieldId resolves: the field is set when there is an id
\* (lines 114, 124, 131 and 168, 178, 185), and the build goes on
FieldIdResolves ==
  /\ issueService.pc \in {Stages[n] : n \in DOMAIN Stages}
  /\ \E n \in {m \in DOMAIN Stages : Stages[m] = issueService.pc} :
       issueService' =
         proceed(issueService,
                 setFieldIf(truthy(issueService.fieldMap[Stages[n]]), issueService.fields,
                            issueService.fieldMap[Stages[n]],
                            stageValue(issueService.method, issueService.input, Stages[n],
                                       issueService.formatAcceptance)),
                 n)
  /\ UNCHANGED <<breakerVars, retryVars, pureVars, client, normalized, handler, fieldService, creation>>

\* client.createIssue / client.updateIssue resolves
IssueCallResolves ==
  /\ issueService.pc \in {"createIssue", "updateIssue"}
  /\ issueService' =
       [issueService EXCEPT
          !.pc = "done",
          !.outcome = Resolved(IF issueService.method = "createIssue"
                               THEN KeyObject(<<"T", "E", "S", "T", "-", "1">>) ELSE undefinedValue)]
  /\ UNCHANGED <<breakerVars, retryVars, pureVars, client, normalized, handler, fieldService, creation>>

\* client.createIssue / client.updateIssue rejects
IssueCallRejects(error) ==
  /\ issueService.pc \in {"createIssue", "updateIssue"}
  /\ issueService' = [issueService EXCEPT !.pc = "done",
                                          !.outcome = Rejected("client", error)]
  /\ UNCHANGED <<breakerVars, retryVars, pureVars, client, normalized, handler, fieldService, creation>>

(* --------------------------- handleJiraCreate ---------------------------- *)

\* String.prototype.split(',')
RECURSIVE split(_)
split(s) ==
  IF \E i \in DOMAIN s : s[i] = ","
  THEN <<SubSeq(s, 1, Min({i \in DOMAIN s : s[i] = ","}) - 1)>>
       \o split(SubSeq(s, Min({i \in DOMAIN s : s[i] = ","}) + 1, Len(s)))
  ELSE <<s>>

\* filter(Boolean) on strings: the ones that are there and not empty
filterBoolean(strings) == SelectSeq(strings, truthy)

\* readEnvList (part_011 lines 676-686) on the value of the variable
readEnvList(value) ==
  IF ~truthy(value) THEN <<>>
  ELSE filterBoolean([i \in DOMAIN split(value) |-> trim(split(value)[i])])

\* normalizeText (part_011 lines 688-695)
normalizeText(value) ==
  IF value = undefinedString \/ trim(value) = <<>> THEN undefinedString ELSE trim(value)

\* lines 270-275
acceptanceFieldCandidates(opts) ==
  filterBoolean(<<normalizeText(opts.acceptanceField),
                  normalizeText(opts.JIRA_ACCEPTANCE_FIELD)>>
                \o readEnvList(opts.JIRA_ACCEPTANCE_FIELDS)
                \o ACCEPTANCE_FIELD_DEFAULTS)

\* lines 277-282
epicFieldCandidates(opts) ==
  filterBoolean(<<normalizeText(opts.epicField), normalizeText(opts.JIRA_EPIC_FIELD)>>
                \o readEnvList(opts.JIRA_EPIC_FIELDS)
                \o EPIC_FIELD_DEFAULTS)

\* lines 284-287
epicStringFieldSet(opts) ==
  {readEnvList(opts.JIRA_EPIC_STRING_FIELDS)[i] :
     i \in DOMAIN readEnvList(opts.JIRA_EPIC_STRING_FIELDS)}
  \cup {EPIC_STRING_FIELD_DEFAULTS[i] : i \in DOMAIN EPIC_STRING_FIELD_DEFAULTS}

\* lines 247-252: project, issue type and summary
baseFields ==
  [k \in {<<"p", "r", "o", "j", "e", "c", "t">>, <<"i", "s", "s", "u", "e", "t", "y", "p", "e">>, <<"s", "u", "m", "m", "a", "r", "y">>} |->
     IF k = <<"p", "r", "o", "j", "e", "c", "t">> THEN KeyObject(<<"T", "E", "S", "T">>)
     ELSE IF k = <<"i", "s", "s", "u", "e", "t", "y", "p", "e">> THEN NameObject(<<"S", "t", "o", "r", "y">>)
     ELSE String(<<"T", "e", "s", "t", " ", "i", "s", "s", "u", "e">>)]

\* lines 304-312: the payload of an attempt
fieldsPayload(c) ==
  setFieldIf(c.includeEpic /\ truthy(c.epicFieldId),
             setFieldIf(c.includeAcceptance /\ truthy(c.acceptanceFieldId),
                        baseFields, c.acceptanceFieldId,
                        String(formatAcceptanceAsTable(c.acceptance))),
             c.epicFieldId,
             IF c.epicAsString THEN String(c.epicKey) ELSE KeyObject(c.epicKey))

\* fieldErrors[fieldId]: the message, no string when the field is not named
fieldError(error, fieldId) ==
  IF fieldId \in DOMAIN error.errors THEN error.errors[fieldId] ELSE undefinedString

\* line 328: the current acceptance field is rejected
acceptanceAdjusted(c, error) ==
  /\ c.includeAcceptance /\ truthy(c.acceptanceFieldId)
  /\ truthy(fieldError(error, c.acceptanceFieldId))

\* lines 328-344: the next acceptance candidate, or none any more.  Indexes
\* count from 0 as in the code
adjustAcceptance(c, error) ==
  IF ~acceptanceAdjusted(c, error) THEN c
  ELSE IF c.acceptanceFieldIndex + 1 < Len(c.acceptanceFieldCandidates)
  THEN [c EXCEPT !.acceptanceFieldIndex = @ + 1,
                 !.acceptanceFieldId = c.acceptanceFieldCandidates[c.acceptanceFieldIndex + 2]]
  ELSE [c EXCEPT !.includeAcceptance = FALSE]

\* /string value expected/i.test(message)
stringValueExpected(message) ==
  includes(toLowerCase(message), <<"s", "t", "r", "i", "n", "g", " ", "v", "a", "l", "u", "e", " ", "e", "x", "p", "e", "c", "t", "e", "d">>)

\* lines 347-360: a message of the epic field or a general message asks for
\* a string, and the key was sent as an object
requiresString(c, error) ==
  /\ ~c.epicAsString
  /\ \/ /\ truthy(fieldError(error, c.epicFieldId))
        /\ stringValueExpected(fieldError(error, c.epicFieldId))
     \/ \E i \in DOMAIN error.errorMessages : stringValueExpected(error.errorMessages[i])

\* lines 346, 362, 366: the epic part of the catch adjusts something
epicAdjusted(c, error) ==
  /\ c.includeEpic /\ truthy(c.epicFieldId)
  /\ requiresString(c, error) \/ truthy(fieldError(error, c.epicFieldId))

\* faulty variant of adjustEpic: a request for a string goes to the next
\* candidate like any rejection (C35_EpicStringThenNextCandidate fails with it)
adjustEpic_alwaysAdvances(c, error) ==
  IF ~epicAdjusted(c, error) THEN c
  ELSE IF c.epicFieldIndex + 1 < Len(c.epicFieldCandidates)
  THEN [c EXCEPT !.epicFieldIndex = @ + 1,
                 !.epicFieldId = c.epicFieldCandidates[c.epicFieldIndex + 2],
                 !.epicAsString =
                    c.epicFieldCandidates[c.epicFieldIndex + 2] \in c.epicStringFieldSet]
  ELSE [c EXCEPT !.includeEpic = FALSE]

\* lines 346-384: the key as a string for the same field, or the next epic
\* candidate, or no epic link any more
adjustEpic(c, error) ==
  IF ~epicAdjusted(c, error) THEN c
  ELSE IF requiresString(c, error) THEN [c EXCEPT !.epicAsString = TRUE]
  ELSE IF c.epicFieldIndex + 1 < Len(c.epicFieldCandidates)
  THEN [c EXCEPT !.epicFieldIndex = @ + 1,
                 !.epicFieldId = c.epicFieldCandidates[c.epicFieldIndex + 2],
                 !.epicAsString =
                    c.epicFieldCandidates[c.epicFieldIndex + 2] \in c.epicStringFieldSet]
  ELSE [c EXCEPT !.includeEpic = FALSE]

\* the error of a rejected attempt: error.response.data with errors{} and
\* errorMessages[], or an error with no response.  number tells the error
\* objects of the attempts apart
CreateError(number, hasResponse, errors, errorMessages) ==
  [kind |-> "Error", number |-> number, response |-> hasResponse, errors |-> errors,
   errorMessages |-> errorMessages]

\* the rejection of the payload by the server, from what it objects to: an
\* objection to the issue type is in errors{} and in errorMessages[]
serverError(c, acceptanceRejected, epicObjection, generalObjection) ==
  CreateError(
    c.attempt + 1, TRUE,
    [k \in (IF acceptanceRejected THEN {c.acceptanceFieldId} ELSE {})
           \cup (IF epicObjection # "none" THEN {c.epicFieldId} ELSE {})
           \cup (IF generalObjection = "other" THEN {IssueTypeKey} ELSE {}) |->
       IF k = IssueTypeKey THEN IssueTypeInvalid
       ELSE IF acceptanceRejected /\ k = c.acceptanceFieldId THEN CannotBeSet
       ELSE IF epicObjection = "string" THEN StringValueExpected ELSE CannotBeSet],
    IF generalObjection = "string" THEN <<GeneralStringValueExpected>>
    ELSE IF generalObjection = "other" THEN <<IssueTypeInvalid>> ELSE <<>>)

\* the message of lines 202-204
MissingSummary ==
  <<"M", "i", "s", "s", "i", "n", "g", " ", "s", "u", "m", "m", "a", "r", "y", ".", " ", "P",
    "r", "o", "v", "i", "d", "e", " ", "-", "-", "s", "u", "m", "m", "a", "r", "y", " ", "o",
    "r", " ", "s", "e", "t", " ", "\"", "s", "u", "m", "m", "a", "r", "y", "\"", " ", "i", "n",
    " ", "t", "h", "e", " ", "m", "a", "r", "k", "d", "o", "w", "n", " ", "f", "r", "o", "n",
    "t", " ", "m", "a", "t", "t", "e", "r", ".">>

\* line 315: client.issues.createIssue({ fields: fieldsPayload }) is called
callCreateIssue(c) ==
  [c EXCEPT !.pc = "createIssue", !.payloads = Append(@, fieldsPayload(c))]

\* handleJiraCreate(opts), lines 177-315, up to the first await: the
\* candidates are collected, and the first attempt is made
HandleJiraCreate(opts) ==
  /\ creation.pc = "idle"
  /\ creation' =
       IF ~truthy(normalizeText(opts.summary))
       THEN [creation EXCEPT
               !.pc = "done",
               !.outcome = Rejected("handleJiraCreate",
                              CreateError(0, FALSE, <<>>, <<MissingSummary>>))]
       ELSE callCreateIssue(
              [creation EXCEPT
                 !.acceptance = opts.acceptance,
                 !.epicKey = normalizeText(opts.epic),
                 !.acceptanceFieldCandidates = acceptanceFieldCandidates(opts),
                 !.epicFieldCandidates = epicFieldCandidates(opts),
                 !.epicStringFieldSet = epicStringFieldSet(opts),
                 !.acceptanceFieldId = acceptanceFieldCandidates(opts)[1],
                 !.epicFieldId = epicFieldCandidates(opts)[1],
                 !.includeAcceptance = truthy(opts.acceptance),
                 !.includeEpic = truthy(normalizeText(opts.epic)),
                 !.epicAsString = epicFieldCandidates(opts)[1] \in epicStringFieldSet(opts)])
  /\ UNCHANGED <<breakerVars, retryVars, pureVars, client, normalized, handler, fieldService,
                 issueService>>

\* createIssue resolves, lines 315-317: the issue is returned
CreateIssueResolves ==
  /\ creation.pc = "createIssue"
  /\ creation' = [creation EXCEPT !.pc = "done", !.attempt = @ + 1,
                                  !.outcome = Resolved(KeyObject(<<"T", "E", "S", "T", "-", "1">>))]
  /\ UNCHANGED <<breakerVars, retryVars, pureVars, client, normalized, handler, fieldService,
                 issueService>>

\* faulty variant of afterRejection: the error is raised only when the
\* attempts are used up (C32_NoAdjustmentRaisesAtOnce fails with it)
afterRejection_alwaysRetries(c, error) ==
  IF c.attempt + 1 < CreateAttempts
  THEN callCreateIssue([adjustEpic(adjustAcceptance(c, error), error)
                          EXCEPT !.attempt = @ + 1, !.errors = Append(@, error)])
  ELSE [c EXCEPT !.pc = "done", !.attempt = @ + 1, !.errors = Append(@, error),
                 !.outcome = Rejected("createIssue", error)]

\* faulty variant of afterRejection: a fourth attempt is made
\* (C31_AtMostThreeAttempts fails with it)
afterRejection_fourAttempts(c, error) ==
  IF ~acceptanceAdjusted(c, error) /\ ~epicAdjusted(c, error)
  THEN [c EXCEPT !.pc = "done", !.attempt = @ + 1, !.errors = Append(@, error),
                 !.outcome = Rejected("createIssue", error)]
  ELSE IF c.attempt + 1 < CreateAttempts + 1
  THEN callCreateIssue([adjustEpic(adjustAcceptance(c, error), error)
                          EXCEPT !.attempt = @ + 1, !.errors = Append(@, error)])
  ELSE [adjustEpic(adjustAcceptance(c, error), error)
          EXCEPT !.pc = "done", !.attempt = @ + 1, !.errors = Append(@, error),
                 !.outcome = Rejected("createIssue", error)]

\* the catch of lines 318-389 and the rest of the loop: with no adjustment
\* the error is thrown; else the next attempt is made, and after the third
\* one lastError is thrown (lines 392-394)
afterRejection(c, error) ==
  IF ~acceptanceAdjusted(c, error) /\ ~epicAdjusted(c, error)
  THEN [c EXCEPT !.pc = "done", !.attempt = @ + 1, !.errors = Append(@, error),
                 !.outcome = Rejected("createIssue", error)]
  ELSE IF c.attempt + 1 < CreateAttempts
  THEN callCreateIssue([adjustEpic(adjustAcceptance(c, error), error)
                          EXCEPT !.attempt = @ + 1, !.errors = Append(@, error)])
  ELSE [adjustEpic(adjustAcceptance(c, error), error)
          EXCEPT !.pc = "done", !.attempt = @ + 1, !.errors = Append(@, error),
                 !.outcome = Rejected("createIssue", error)]

\* createIssue rejects with a response of the server
CreateIssueRejects(acceptanceRejected, epicObjection, generalObjection) ==
  /\ creation.pc = "createIssue"
  /\ acceptanceRejected => creation.includeAcceptance
  /\ epicObjection # "none" => creation.includeEpic
  /\ creation' = afterRejection(creation, serverError(creation, acceptanceRejected,
                                                      epicObjection, generalObjection))
  /\ UNCHANGED <<breakerVars, retryVars, pureVars, client, normalized, handler, fieldService,
                 issueService>>

\* createIssue rejects without a response: the request did not get through
CreateIssueFails ==
  /\ creation.pc = "createIssue"
  /\ creation' = afterRejection(creation,
                                CreateError(creation.attempt + 1, FALSE, <<>>, <<>>))
  /\ UNCHANGED <<breakerVars, retryVars, pureVars, client, normalized, handler, fieldService,
                 issueService>>

(* --------------------------- specifications ---------------------------- *)

Next ==
  \/ \E c \in Calls, s \in CoreServices, opts \in Options : WithCircuitBreaker(c, s, opts)
  \/ \E c \in Calls, v \in Values : FnResolves(c, v)
  \/ \E c \in Calls, e \in FnErrors : FnRejects(c, e)
  \/ Tick

Spec == Init /\ [][Next]_vars

NextSingleTrial ==
  \/ \E c \in Calls, s \in CoreServices, opts \in SingleTrialOptions :
       WithCircuitBreaker(c, s, opts)
  \/ \E c \in Calls, v \in Values : FnResolves(c, v)
  \/ \E c \in Calls, e \in FnErrors : FnRejects(c, e)
  \/ Tick

SpecSingleTrial == Init /\ [][NextSingleTrial]_vars

NextRegistry ==
  \/ \E c \in RegistryCalls, s \in Services, opts \in RegistryOptions :
       WithCircuitBreaker(c, s, opts)
  \/ \E c \in Calls, v \in RegistryValues : FnResolves(c, v)
  \/ \E c \in Calls, e \in RegistryErrors : FnRejects(c, e)
  \/ \E s \in Services : ResetCircuit(s)
  \/ ResetAllCircuits
  \/ \E s \in Services : GetCircuitStats(s)
  \/ Tick

SpecRegistry == Init /\ [][NextRegistry]_vars

NextHooks ==
  \/ \E c \in Calls, s \in CoreServices, opts \in HookOptions : WithCircuitBreaker(c, s, opts)
  \/ \E c \in Calls, v \in RegistryValues : FnResolves(c, v)
  \/ \E c \in Calls, e \in FnErrors : FnRejects(c, e)
  \/ Tick

SpecHooks == Init /\ [][NextHooks]_vars

\* concurrent calls on the services, each service with its fixed options
NextFixedOptions ==
  \/ \E c \in Calls, s \in Services : WithCircuitBreaker(c, s, FixedOptions(s))
  \/ \E c \in Calls, v \in RegistryValues : FnResolves(c, v)
  \/ \E c \in Calls, e \in FnErrors : FnRejects(c, e)
  \/ Tick

SpecFixedOptions == Init /\ [][NextFixedOptions]_vars

NextRetry ==
  \/ \E opts \in RetryOptions : WithRetry(opts)
  \/ \E v \in Values : RetryFnResolves(v)
  \/ \E e \in FnErrors, random \in Randoms : RetryFnRejects(e, random)
  \/ SleepDone

SpecRetry == Init /\ [][NextRetry]_vars

NextBackoff == \E opts \in BackoffOptions, random \in Randoms : CalculateBackoff(opts, random)

SpecBackoff == Init /\ [][NextBackoff]_vars

NextClassify == \E error \in ErrorValues : IsRetryableError(error)

SpecClassify == Init /\ [][NextClassify]_vars

NextNormalize ==
  \E service \in Normalizers, error \in NormalizerInputs : Normalize(service, error)

SpecNormalize == Init /\ [][NextNormalize]_vars

\* the operations of a client, one after the other; the backoff
\* timer of a retry (SleepDone) and the clock (Tick)
NextClient ==
  \/ \E service \in Services, operation \in {"search", "getIssue", "getPageById"} :
       ClientExecute(service, operation)
  \/ \E result \in RawResults("search") : RawResolves(result)
  \/ \E error \in RawRejections : RawRejects(error)
  \/ SleepDone
  \/ Tick

SpecClient == Init /\ [][NextClient]_vars

NextTransition ==
  \/ \E status \in TransitionStatuses, configured \in BOOLEAN :
       HandleJiraTransition(status, configured)
  \/ \E transitions \in TransitionLists : GetTransitionsResolves(transitions)
  \/ GetTransitionsRejects(HandlerRejection)
  \/ TransitionIssueResolves
  \/ TransitionIssueRejects(HandlerRejection)

SpecTransition == Init /\ [][NextTransition]_vars

\* one FieldService instance, its callers, and the Jira client under it
NextFields ==
  \/ \E config \in JiraConfigs, jiraClient \in JiraClients :
       NewFieldService(config, jiraClient)
  \/ \E r \in Resolutions, logicalName \in LogicalFieldNames : ResolveFieldId(r, logicalName)
  \/ \E r \in Resolutions, logicalName \in LogicalFieldNames : AssertFieldId(r, logicalName)
  \/ \E r \in Resolutions : ListFieldsResolves(r)
  \/ \E r \in Resolutions : ListFieldsRejects(r, HandlerRejection)
  \/ ClearCache

SpecFields == Init /\ [][NextFields]_vars

\* one IssueService, one createIssue or updateIssue on it
NextIssue ==
  \/ \E fieldMap \in FieldMaps, formatOption \in FormatOptions :
       NewIssueService(fieldMap, formatOption)
  \/ \E input \in CreateIssueInputs : CreateIssue(input)
  \/ \E input \in UpdateIssueInputs : UpdateIssue(input)
  \/ FieldIdResolves
  \/ IssueCallResolves
  \/ IssueCallRejects(IssueRejection)

SpecIssue == Init /\ [][NextIssue]_vars

\* one handleJiraCreate call, the server answering each attempt as it likes
NextCreate ==
  \/ \E opts \in CreateOptions : HandleJiraCreate(opts)
  \/ CreateIssueResolves
  \/ \E acceptanceRejected \in BOOLEAN, epicObjection \in EpicObjections,
        generalObjection \in GeneralObjections :
       CreateIssueRejects(acceptanceRejected, epicObjection, generalObjection)
  \/ CreateIssueFails

SpecCreate == Init /\ [][NextCreate]_vars

\* the operation's promise settles, and setTimeout fires
SpecRetryFair ==
  /\ SpecRetry
  /\ WF_vars(\E v \in Values : RetryFnResolves(v))
  /\ WF_vars(\E e \in FnErrors, random \in Randoms : RetryFnRejects(e, random))
  /\ WF_vars(SleepDone)

(* ------------------------------ claims -------------------------------- *)

\* the registered object of a service, Free when the Map has no entry
CircuitOf(s) == IF circuits[s] = NoCircuit THEN Free ELSE objects[circuits[s]]

\* the suspended activations on a service
InFlight(s) == {c \in Calls : calls[c].pc = "awaiting" /\ calls[c].serviceName = s}

\* the step refuses the call of slot c: CIRCUIT_BREAKER_OPEN, and fn is not invoked
Refuses(c) ==
  /\ calls'[c].pc = "idle"
  /\ settled'.outcome = circuitBreakerOpen
  /\ settled'.fnCalls = 0

\* the step invokes fn for the call of slot c, and suspends on it
Invokes(c) == calls[c].pc = "idle" /\ calls'[c].pc = "awaiting"

\* C1: a call on an open circuit made while now - lastFailureTime <
\* resetTimeoutMs is rejected with CIRCUIT_BREAKER_OPEN, does not invoke fn,
\* and leaves state, failureCount and lastFailureTime as they were.
C1_OpenCircuitRefuses ==
  [][\A s \in Services :
       CircuitOf(s).state = "open" =>
         \A opts \in Options :
           Now - CircuitOf(s).lastFailureTime < opts.resetTimeoutMs =>
             \A c \in Calls :
               WithCircuitBreaker(c, s, opts) =>
                 /\ Refuses(c)
                 /\ CircuitOf(s)' = CircuitOf(s)]_vars

\* the 6th call after 5 failing calls at threshold 5 has been refused
C1_Witness ==
  /\ CircuitOf("jira").state = "open"
  /\ CircuitOf("jira").failureCount = DEFAULT_FAILURE_THRESHOLD
  /\ settled.arrivedIn = "open"
  /\ settled.outcome = circuitBreakerOpen
  /\ settled.fnCalls = 0

\* C2: from a fresh circuit, after n sequential calls that all failed with a
\* tripping error under one failureThreshold, the circuit is closed while
\* n < failureThreshold and open once n = failureThreshold.
C2_OpensExactlyAtThreshold ==
  \A s \in Services :
    failRun[s].ok =>
      /\ getCircuitStats(s).failureCount = failRun[s].n
      /\ getCircuitState(s) =
           IF failRun[s].n > 0 /\ failRun[s].n >= failRun[s].failureThreshold
           THEN "open" ELSE "closed"

\* five sequential failures at the default threshold have opened the circuit
C2_Witness ==
  /\ failRun["jira"].ok
  /\ failRun["jira"].n = DEFAULT_FAILURE_THRESHOLD
  /\ failRun["jira"].failureThreshold = DEFAULT_FAILURE_THRESHOLD
  /\ InFlight("jira") = {}
  /\ getCircuitState("jira") = "open"

\* the call of slot c is a half-open trial
IsTrial(c) == calls[c].pc = "awaiting" /\ calls[c].arrivedIn \in {"open", "half-open"}

\* C3, first half: a call that arrives on an open circuit with now -
\* lastFailureTime >= resetTimeoutMs moves it to half-open and invokes fn once,
\* as the trial.
ExpiredOpenCallIsTrial ==
  \A s \in Services :
    CircuitOf(s).state = "open" =>
      \A opts \in Options :
        Now - CircuitOf(s).lastFailureTime >= opts.resetTimeoutMs =>
          \A c \in Calls :
            WithCircuitBreaker(c, s, opts) =>
              /\ Invokes(c)
              /\ calls'[c].arrivedIn = "open"
              /\ CircuitOf(s)'.state = "half-open"
              /\ CircuitOf(s)'.halfOpenAttempts = 1

\* C3 as claimed: ... and if that trial resolves, the circuit becomes closed
\* with failureCount = 0 and the call returns fn's value.
C3_Original_TrialSuccessCloses ==
  [][/\ ExpiredOpenCallIsTrial
     /\ \A c \in Calls :
          (calls[c].pc = "awaiting" /\ calls[c].arrivedIn = "open") =>
            \A v \in Values :
              FnResolves(c, v) =>
                /\ objects'[calls[c].circuit].state = "closed"
                /\ objects'[calls[c].circuit].failureCount = 0
                /\ settled'.outcome = Resolved(v)]_vars

\* C3 as amended: ... and if that trial resolves while the circuit is still
\* half-open, the circuit becomes closed with failureCount = 0; the call
\* returns fn's value in every case.
C3_TrialSuccessClosesHalfOpen ==
  [][/\ ExpiredOpenCallIsTrial
     /\ \A c \in Calls :
          (calls[c].pc = "awaiting" /\ calls[c].arrivedIn = "open") =>
            \A v \in Values :
              FnResolves(c, v) =>
                /\ settled'.outcome = Resolved(v)
                /\ settled'.fnCalls = 1
                /\ objects[calls[c].circuit].state = "half-open" =>
                     /\ objects'[calls[c].circuit].state = "closed"
                     /\ objects'[calls[c].circuit].failureCount = 0]_vars

\* a trial admitted from an open circuit has resolved; the circuit is closed
C3_Witness ==
  /\ settled.arrivedIn = "open"
  /\ settled.outcome = Resolved("recovered")
  /\ InFlight("jira") = {}
  /\ CircuitOf("jira").state = "closed"
  /\ CircuitOf("jira").failureCount = 0

\* C4: when a half-open trial fails with a tripping error the circuit is open
\* again at once, whatever failureCount is, and calls made within the next
\* resetTimeoutMs (the first of them right away) are refused.
C4_TrialFailureReopens ==
  [][\A c \in Calls :
       IsTrial(c) =>
         \A e \in FnErrors :
           (shouldTrip(calls[c], e) /\ FnRejects(c, e)) =>
             /\ objects'[calls[c].circuit].state = "open"
             /\ \A opts \in Options :
                  refusedOpen(objects'[calls[c].circuit], Now, opts)]_vars

\* C5: with halfOpenMaxAttempts = 1, while a trial is outstanding every
\* further call on the service is refused, and a half-open circuit has
\* admitted at most halfOpenMaxAttempts trials.
C5_TrialOutstandingRefusesOthers ==
  /\ [](\A s \in Services :
          CircuitOf(s).state = "half-open" =>
            CircuitOf(s).halfOpenAttempts <= DEFAULT_HALF_OPEN_MAX_ATTEMPTS)
  /\ [][\A s \in Services :
          (\E d \in InFlight(s) : IsTrial(d)) =>
            \A opts \in SingleTrialOptions, c \in Calls :
              WithCircuitBreaker(c, s, opts) => Refuses(c)]_vars

\* C6: whatever happened before, a call made when no call is in flight and at
\* least resetTimeoutMs after the last recorded failure invokes fn.
C6_NeverRefusesForever ==
  [][\A s \in Services :
       (circuits[s] # NoCircuit /\ \A d \in Calls : calls[d].pc = "idle") =>
         \A opts \in SingleTrialOptions :
           Now - CircuitOf(s).lastFailureTime >= opts.resetTimeoutMs =>
             \A c \in Calls : WithCircuitBreaker(c, s, opts) => Invokes(c)]_vars

\* C7: a call that found the circuit closed or half-open and whose fn rejects
\* with an error shouldTrip refuses rejects with that error and leaves state,
\* failureCount, lastFailureTime and halfOpenAttempts as they were before the
\* call (no other call having run on the circuit meanwhile).
C7_NonTrippingFailureLeavesCircuit ==
  [][\A c \in Calls :
       ( /\ calls[c].pc = "awaiting"
         /\ calls[c].arrivedIn \in {"closed", "half-open"}
         /\ calls[c].before # Overlapped ) =>
         \A e \in FnErrors :
           (~shouldTrip(calls[c], e) /\ FnRejects(c, e)) =>
             /\ settled'.outcome = Rejected("fn", e)
             /\ objects'[calls[c].circuit] = calls[c].before]_vars

\* C8: a call whose fn was invoked settles exactly as fn did (same value, same
\* error), and the breaker's own error, CIRCUIT_BREAKER_OPEN, is the outcome
\* only of calls whose fn was not invoked.
C8_OutcomeIsFnOutcome ==
  /\ settled.fnCalls = 1 =>
       /\ settled.fnOutcome # Pending
       /\ settled.outcome = settled.fnOutcome
  /\ settled.fnCalls = 0 => settled.outcome \in {Pending, circuitBreakerOpen}
  /\ settled.outcome.origin = "breaker" =>
       settled.fnCalls = 0 /\ settled.outcome = circuitBreakerOpen

\* the failure that opened the circuit reached the caller as fn's own error
C8_Witness ==
  /\ settled.fnCalls = 1
  /\ settled.arrivedIn = "closed"
  /\ settled.outcome = Rejected("fn", "ECONNRESET")
  /\ InFlight("jira") = {}
  /\ CircuitOf("jira").state = "open"
  /\ CircuitOf("jira").failureCount = 2

\* an operation on service s: a call, the settling of one, a reset of s, a read of s
OperationOn(s) ==
  \/ \E c \in Calls, opts \in RegistryOptions : WithCircuitBreaker(c, s, opts)
  \/ \E c \in Calls :
       /\ calls[c].serviceName = s
       /\ \/ \E v \in RegistryValues : FnResolves(c, v)
          \/ \E e \in RegistryErrors : FnRejects(c, e)
  \/ ResetCircuit(s)
  \/ GetCircuitStats(s)

\* C9: no operation on one service changes state, failureCount,
\* lastFailureTime (or halfOpenAttempts) of another service.
C9_ServicesIsolated ==
  [][\A a \in Services :
       OperationOn(a) =>
         \A b \in Services \ {a} :
           /\ CircuitOf(b)' = CircuitOf(b)
           /\ getCircuitStats(b)' = getCircuitStats(b)]_vars

\* jira's circuit is open, and a call on confluence has been invoked meanwhile
C9_Witness ==
  /\ CircuitOf("jira").state = "open"
  /\ CircuitOf("confluence").state = "closed"
  /\ InFlight("confluence") # {}

\* C10: whenever an object's state becomes closed its failureCount is 0, and
\* whenever it becomes half-open its halfOpenAttempts counts only the trial
\* admitted in that very step.
C10_TransitionsResetCounters ==
  [][\A o \in ObjIds :
       /\ (objects[o].state # "closed" /\ objects'[o].state = "closed") =>
            objects'[o].failureCount = 0
       /\ (objects[o].state # "half-open" /\ objects'[o].state = "half-open") =>
            objects'[o].halfOpenAttempts = Cardinality({c \in Calls : Invokes(c)})]_vars

\* a second half-open episode: the attempts of the first one are not counted
C10_Witness ==
  /\ CircuitOf("jira").state = "half-open"
  /\ CircuitOf("jira").failureCount = 3
  /\ CircuitOf("jira").halfOpenAttempts = 1
  /\ Cardinality(InFlight("jira")) = 1

\* C11: a call that resolves while its circuit is closed leaves it closed
\* with failureCount = 0 (lastFailureTime and halfOpenAttempts untouched), so
\* a closed circuit's failureCount never exceeds the number of tripping
\* failures since the last success: it is 0 right after every success.
C11_SuccessOnClosedResetsCount ==
  [][\A c \in Calls :
       (calls[c].pc = "awaiting" /\ objects[calls[c].circuit].state = "closed") =>
         \A v \in Values :
           FnResolves(c, v) =>
             /\ settled'.outcome = Resolved(v)
             /\ objects'[calls[c].circuit] =
                  [objects[calls[c].circuit] EXCEPT !.failureCount = 0]]_vars

\* a success after one failure (threshold not reached) has reset the count
C11_Witness ==
  /\ settled.arrivedIn = "closed"
  /\ settled.outcome = Resolved("ok")
  /\ InFlight("jira") = {}
  /\ CircuitOf("jira").state = "closed"
  /\ CircuitOf("jira").failureCount = 0
  /\ CircuitOf("jira").lastFailureTime = Now

\* what getCircuitStats reports for a circuit that was never used
InitialStats == [state |-> "closed", failureCount |-> 0, lastFailureTime |-> 0]

\* C12: right after resetCircuit(s) or resetAllCircuits(), whatever the
\* circuit was, getCircuitState(s) is closed and getCircuitStats(s) reports
\* failureCount 0 and lastFailureTime 0; a call that finds the service reset
\* invokes fn; resetCircuit(s) leaves the circuit of every other service as
\* it was.
C12_ResetGivesFreshCircuit ==
  [][\A s \in Services :
       /\ (ResetCircuit(s) \/ ResetAllCircuits) =>
            /\ getCircuitState(s)' = "closed"
            /\ getCircuitStats(s)' = InitialStats
       /\ ResetCircuit(s) =>
            \A b \in Services \ {s} :
              circuits'[b] = circuits[b] /\ CircuitOf(b)' = CircuitOf(b)
       /\ circuits[s] = NoCircuit =>
            \A c \in Calls, opts \in RegistryOptions :
              WithCircuitBreaker(c, s, opts) =>
                /\ Invokes(c)
                /\ calls'[c].arrivedIn = "closed"
                /\ CircuitOf(s)' = NewCircuit]_vars

\* no time has passed since a call was refused, yet no circuit is open: the
\* open circuit was reset; jira's fn has been invoked on a fresh circuit and
\* confluence still has its counted failure
C12_Witness ==
  /\ clock = 1
  /\ settled.outcome = circuitBreakerOpen
  /\ CircuitOf("jira") = NewCircuit
  /\ InFlight("jira") # {}
  /\ CircuitOf("confluence").state = "closed"
  /\ CircuitOf("confluence").failureCount = 1

\* the activation of slot c settles in this step
Settles(c) == calls[c].pc = "awaiting" /\ calls'[c].pc = "idle"

\* the call acting in this step passed onStateChange
ActingCallHooked ==
  \E c \in Calls : \/ Invokes(c) /\ calls'[c].onStateChange
                   \/ Settles(c) /\ calls[c].onStateChange

\* C13: every step of a call that passed onStateChange and changes the state
\* value of its circuit adds exactly one invocation (previous state, new
\* state, serviceName) at the end of the log, and a step that leaves the
\* state value as it was adds none: the log is the changes, once each, in
\* the order they happened.
C13_NotifiedOncePerChange ==
  [][\A s \in CoreServices :
       notified' = notified \o
         (IF /\ CircuitOf(s).state # "free"
             /\ CircuitOf(s)'.state # CircuitOf(s).state
             /\ ActingCallHooked
          THEN <<[from |-> CircuitOf(s).state, to |-> CircuitOf(s)'.state, service |-> s]>>
          ELSE <<>>)]_vars

\* one full episode, reported change by change
C13_Witness ==
  /\ notified = << [from |-> "closed", to |-> "open", service |-> "jira"],
                   [from |-> "open", to |-> "half-open", service |-> "jira"],
                   [from |-> "half-open", to |-> "closed", service |-> "jira"] >>
  /\ CircuitOf("jira").state = "closed"
  /\ InFlight("jira") = {}

(* ------------------------------ withRetry ------------------------------ *)

\* the positions in events of the entries of one kind
EventsOf(kind) == {i \in DOMAIN events : events[i].kind = kind}

\* how often the operation has been invoked
FnCalls == Cardinality(EventsOf("fn"))

\* the activation has resolved or rejected
RetryDone == retry.pc \in {"resolved", "rejected"}

\* C14: for every maxAttempts and every sequence of outcomes, withRetry
\* invokes the operation at most maxAttempts times and, by the time it
\* resolves or rejects, at least once.
C14_AttemptsBounded ==
  /\ retry.pc # "idle" => FnCalls <= retry.maxAttempts
  /\ RetryDone => FnCalls >= 1

\* C14, the part about termination: once called, withRetry resolves or
\* rejects (the operation's promise settling and the timer firing).
C14_Terminates == (retry.pc # "idle") ~> RetryDone

\* C14 for maxAttempts >= 1 (holds): between 1 and maxAttempts invocations
C14_AttemptsBoundedFromOne ==
  retry.maxAttempts >= 1 =>
    /\ retry.pc # "idle" => FnCalls >= 1 /\ FnCalls <= retry.maxAttempts
    /\ RetryDone => retry.outcome # Pending

\* the last entry of one kind in events (there is one)
LastOf(kind) == events[CHOOSE i \in EventsOf(kind) : \A j \in EventsOf(kind) : j <= i]

\* C15: whenever withRetry rejects, it rejects with exactly the error the
\* last attempt it invoked rejected with.
C15_RejectsWithLastError ==
  retry.pc = "rejected" =>
    /\ EventsOf("fnRejected") # {}
    /\ LastOf("fnRejected").attempt = FnCalls
    /\ retry.outcome = Rejected("fn", LastOf("fnRejected").error)

\* C15 for maxAttempts >= 1 (holds)
C15_RejectsWithLastErrorFromOne ==
  (retry.pc = "rejected" /\ retry.maxAttempts >= 1) =>
    /\ EventsOf("fnRejected") # {}
    /\ LastOf("fnRejected").attempt = FnCalls
    /\ retry.outcome = Rejected("fn", LastOf("fnRejected").error)

\* the entries this step adds to events
NewEvents == {i \in DOMAIN events' : i > Len(events)}

\* C16: when the attempt that just failed was the maxAttempts-th, or
\* shouldRetry(error, attempt) is false, withRetry rejects in that same step:
\* no invocation of the operation, no onRetry and no sleep follow, then or
\* later.  shouldRetry, when called, gets the error and the 1-based number
\* of the attempt that just failed.
C16_StopsAtOnce ==
  [][/\ \A e \in FnErrors, random \in Randoms :
          RetryFnRejects(e, random) =>
            /\ \A i \in NewEvents :
                 events'[i].kind = "shouldRetry" =>
                   events'[i].attempt = FnCalls /\ events'[i].error = e
            /\ (FnCalls >= retry.maxAttempts \/ ~shouldRetry(retry, e, FnCalls)) =>
                 /\ retry'.pc = "rejected"
                 /\ retry'.outcome = Rejected("fn", e)
                 /\ \A i \in NewEvents : events'[i].kind \notin {"fn", "onRetry", "sleep"}
     /\ retry.pc = "rejected" => (retry' = retry /\ events' = events)]_vars

\* stopped by shouldRetry after the second of three allowed attempts: the
\* first error was retried, the second refused
C16_Witness ==
  /\ retry.pc = "rejected"
  /\ retry.maxAttempts = 3
  /\ retry.shouldRetry = "retryable"
  /\ FnCalls = 2
  /\ retry.outcome = Rejected("fn", "HTTP_400")
  /\ events[Len(events)] = ShouldRetryCalled("HTTP_400", 2)

\* C17: a failure of attempt k < maxAttempts that shouldRetry accepts leads,
\* after the backoff, to invocation k + 1 and to nothing else; when the
\* operation resolves with v on its k-th invocation (k - 1 rejections before
\* it, k <= maxAttempts) withRetry resolves with v, and the operation is not
\* invoked again.
C17_ResolvesWithFirstSuccess ==
  [][/\ \A v \in Values :
          RetryFnResolves(v) =>
            /\ retry'.pc = "resolved"
            /\ retry'.outcome = Resolved(v)
            /\ FnCalls' = FnCalls
            /\ FnCalls = Cardinality(EventsOf("fnRejected")) + 1
            /\ FnCalls <= retry.maxAttempts
     /\ \A e \in FnErrors, random \in Randoms :
          (RetryFnRejects(e, random)
             /\ FnCalls < retry.maxAttempts /\ shouldRetry(retry, e, FnCalls)) =>
            retry'.pc = "sleeping" /\ FnCalls' = FnCalls
     /\ SleepDone => (retry'.pc = "awaiting" /\ FnCalls' = FnCalls + 1)
     /\ retry.pc = "resolved" => (retry' = retry /\ events' = events)]_vars

\* rejected twice, then "ok": resolved with "ok" after exactly 3 invocations
C17_Witness ==
  /\ retry.pc = "resolved"
  /\ retry.maxAttempts = 3
  /\ retry.outcome = Resolved("ok")
  /\ FnCalls = 3
  /\ Cardinality(EventsOf("fnRejected")) = 2
  /\ events[Len(events)] = FnResolved("ok", 3)

\* C18: with onRetry passed, every onRetry call follows the rejection of an
\* attempt (and the shouldRetry call on it), carries that attempt's error,
\* its number (1, 2, ... in order) and the delay the sleep right after it is
\* given; every invocation after the first has exactly such a call and sleep
\* before it; so a finished withRetry that invoked the operation n >= 1
\* times called onRetry n - 1 times.  Without onRetry passed there is no call.
C18_OnRetryOncePerRetry ==
  /\ ~retry.onRetry => EventsOf("onRetry") = {}
  /\ retry.onRetry =>
       /\ \A i \in EventsOf("onRetry") :
            /\ i >= 3 /\ i + 1 \in DOMAIN events
            /\ events[i - 2] = FnRejected(events[i].error, events[i].attempt)
            /\ events[i - 1] = ShouldRetryCalled(events[i].error, events[i].attempt)
            /\ events[i + 1] = SleepCalled(events[i].attempt, events[i].delayMs)
            /\ events[i].attempt = Cardinality({j \in EventsOf("onRetry") : j <= i})
            /\ events[i].attempt = Cardinality({j \in EventsOf("fn") : j < i})
       /\ \A i \in EventsOf("fn") :
            events[i].attempt >= 2 =>
              /\ events[i - 1].kind = "sleep"
              /\ events[i - 2].kind = "onRetry"
              /\ events[i - 2].attempt = events[i].attempt - 1
       /\ (RetryDone /\ FnCalls >= 1) =>
            Cardinality(EventsOf("onRetry")) = FnCalls - 1

\* two retries, two onRetry calls, then the success
C18_Witness ==
  /\ retry.onRetry
  /\ retry.pc = "resolved"
  /\ FnCalls = 3
  /\ Cardinality(EventsOf("onRetry")) = 2
  /\ events[Len(events) - 3] =
       OnRetryCalled("ECONNRESET", 2, events[Len(events) - 2].delayMs)

(* --------------------------- calculateBackoff --------------------------- *)

\* baseDelayMs * 2^(a-1) for the options of the applications made
ExponentialDelay(a) == backoff.baseDelayMs * Pow2(a - 1)

\* C19: with baseDelayMs and maxDelayMs fixed and any jitter, the delay
\* after attempt a is at least min(baseDelayMs * 2^(a-1), maxDelayMs), at
\* most maxDelayMs, at most 1.3 * baseDelayMs * 2^(a-1), and at least the
\* delay after attempt a - 1.
C19_BackoffBounds ==
  \A a \in DOMAIN backoff.delays :
    /\ backoff.delays[a] >= (IF ExponentialDelay(a) <= backoff.maxDelayMs
                             THEN ExponentialDelay(a) ELSE backoff.maxDelayMs)
    /\ backoff.delays[a] <= backoff.maxDelayMs
    /\ 10 * backoff.delays[a] <= 13 * ExponentialDelay(a)
    /\ a > 1 => backoff.delays[a] >= backoff.delays[a - 1]

\* the options of the maxDelayMs test: a jittered first delay, then the cap
C19_Witness ==
  /\ backoff.baseDelayMs = 10000
  /\ backoff.maxDelayMs = 15000
  /\ Len(backoff.delays) = 3
  /\ backoff.delays[1] = 12970
  /\ backoff.delays[2] = 15000
  /\ backoff.delays[3] = 15000

(* --------------------------- isRetryableError --------------------------- *)

\* the value carries one of the five network failure codes
CarriesNetworkCode(e) == e.code \in networkCodes

\* the value's message contains, in any case, one of the three network messages
CarriesNetworkMessage(e) ==
  \E msg \in networkMessages : includes(toLowerCase(e.message), msg)

\* the value's HTTP status: response.status, else status
HttpStatus(e) ==
  IF e.response.present /\ e.response.status # undefinedStatus
  THEN e.response.status
  ELSE e.status

\* C20: isRetryableError(e) is true exactly when e carries a network failure
\* code, or its message contains one of the network messages in any case, or
\* its HTTP status is 429, 502, 503 or 504; it is false for every other
\* value, statuses 400, 401, 404, 500 and values that are no objects included.
C20_RetryableExactly ==
  classified.applied =>
    (classified.retryable <=>
       \/ CarriesNetworkCode(classified.error)
       \/ CarriesNetworkMessage(classified.error)
       \/ HttpStatus(classified.error) \in {429, 502, 503, 504})

\* C20 where the code and the message count on Error instances only: what
\* isRetryableError computes
C20_RetryableExactlyOnErrorInstances ==
  classified.applied =>
    (classified.retryable <=>
       \/ /\ classified.error.kind = "Error"
          /\ \/ CarriesNetworkCode(classified.error)
             \/ CarriesNetworkMessage(classified.error)
       \/ HttpStatus(classified.error) \in {429, 502, 503, 504})

\* a plain object with a network code and no retryable status is classified,
\* and is not retryable
C20_Witness ==
  /\ classified.applied
  /\ classified.error.kind = "object"
  /\ classified.error.code = "ECONNRESET"
  /\ HttpStatus(classified.error) = undefinedStatus
  /\ ~classified.retryable

(* ----------------------------- normalizers ----------------------------- *)

\* the API error code of a normalizer
ApiErrorCode(service) ==
  IF service = "jira" THEN "JIRA_API_ERROR" ELSE "CONFLUENCE_API_ERROR"

\* C23: the normalizers return an AppError input itself, so normalizing
\* twice gives what normalizing once gives; an input that is no object with
\* a message property gives UNKNOWN_ERROR with the input as cause; any other
\* input gives JIRA_API_ERROR / CONFLUENCE_API_ERROR with statusCode
\* response.status when present and status otherwise, and the input as cause.
C23_NormalizeIdempotent ==
  normalized.applied =>
    /\ normalized.again = normalized.result
    /\ isAppError(normalized.result)
    /\ IF isAppError(normalized.error)
       THEN normalized.result = normalized.error
       ELSE IF ~(normalized.error.kind \in ObjectKinds /\ normalized.error.hasMessage)
            THEN /\ normalized.result.code = "UNKNOWN_ERROR"
                 /\ normalized.result.cause = normalized.error
            ELSE /\ normalized.result.code = ApiErrorCode(normalized.service)
                 /\ normalized.result.statusCode = HttpStatus(normalized.error)
                 /\ normalized.result.cause = normalized.error

\* an object with response.status 404 and status 500 is normalized to a
\* Jira API error with status 404
C23_Witness ==
  /\ normalized.applied
  /\ normalized.service = "jira"
  /\ normalized.error.kind = "object"
  /\ normalized.error.response.present
  /\ normalized.error.response.status = 404
  /\ normalized.error.status = 500
  /\ normalized.result.code = "JIRA_API_ERROR"
  /\ normalized.result.statusCode = 404
  /\ normalized.again = normalized.result

(* ------------------------- the Resilient Clients ------------------------- *)

\* the client operation has rejected; Escaped is what it rejected with
ClientRejected == client.pc = "settled" /\ client.outcome.kind = "rejected"
Escaped == client.outcome.payload

\* what the last raw SDK call of the operation did
LastRaw == client.raw[Len(client.raw)]

\* C21: every rejection of a JiraClient or ConfluenceClient operation is an
\* AppError with a code of the taxonomy, whatever the raw SDK call rejected
\* with; the breaker's rejection keeps the code CIRCUIT_BREAKER_OPEN.
C21_EveryRejectionIsAppError ==
  ClientRejected =>
    /\ isAppError(Escaped)
    /\ Escaped.code \in ErrorCode
    /\ client.outcome.origin = "breaker" =>
         /\ Escaped.code = "CIRCUIT_BREAKER_OPEN"
         /\ Escaped = AppError_circuitBreakerOpen(BreakerErrorId, client.service)

\* the circuit has opened and the client operation is refused
C21_Witness ==
  /\ ClientRejected
  /\ client.outcome.origin = "breaker"
  /\ client.raw = <<>>
  /\ Escaped.code = "CIRCUIT_BREAKER_OPEN"

\* a string rejected by the raw call has escaped as UNKNOWN_ERROR
C21_WitnessUnknown ==
  /\ ClientRejected
  /\ client.raw # <<>>
  /\ LastRaw.kind = "rejected"
  /\ LastRaw.value.kind = "string"
  /\ Escaped.code = "UNKNOWN_ERROR"
  /\ Escaped.cause = LastRaw.value

\* the raw rejection is a transport failure: it carries a network code or
\* a network message
TransportFailure(e) ==
  e.kind \in ObjectKinds /\ (CarriesNetworkCode(e) \/ CarriesNetworkMessage(e))

\* C22: a transport failure that escapes a client operation after its
\* retries is surfaced with code NETWORK_ERROR.
C22_TransportFailureIsNetworkError ==
  (/\ ClientRejected
   /\ client.raw # <<>>
   /\ LastRaw.kind = "rejected"
   /\ TransportFailure(LastRaw.value))
  => Escaped.code = "NETWORK_ERROR"

\* an Error with code ECONNRESET has been rejected by all three attempts
\* and escapes as an API error
C22_Witness ==
  /\ ClientRejected
  /\ Len(client.raw) = 3
  /\ \A i \in 1..3 : client.raw[i] = [kind |-> "rejected", value |-> NetworkError("Error")]
  /\ Escaped.code \in {"JIRA_API_ERROR", "CONFLUENCE_API_ERROR"}
  /\ Escaped.cause = NetworkError("Error")

CallsOf(fn) == {i \in DOMAIN handler.called : handler.called[i].fn = fn}

\* transition t is what the requested status asks for
Matches(t, status) == toLowerCase(t.name) = toLowerCase(status) \/ t.id = status

\* client.getTransitions has resolved: the handler is past line 279
TransitionsReceived ==
  \/ handler.pc \in {"transitionIssue", "resolved"}
  \/ handler.pc = "rejected" /\ handler.outcome.origin = "handler"
  \/ handler.pc = "rejected" /\ CallsOf("transitionIssue") # {}

\* C25: getTransitions is called before transitionIssue; when the status
\* is a transition's name in any case or a transition's id, transitionIssue
\* is called exactly once, with the id of such a transition (the first in
\* the list); when none matches, transitionIssue is never called and the
\* failure message lists name and id of every available transition.
C25_TransitionResolvedFirst ==
  /\ \A i \in CallsOf("transitionIssue") :
       \E j \in CallsOf("getTransitions") : j < i
  /\ TransitionsReceived
     => IF \E k \in DOMAIN handler.transitions :
             Matches(handler.transitions[k], handler.status)
        THEN /\ Cardinality(CallsOf("transitionIssue")) = 1
             /\ \E k \in DOMAIN handler.transitions :
                  /\ Matches(handler.transitions[k], handler.status)
                  /\ \A l \in 1..(k - 1) : ~Matches(handler.transitions[l], handler.status)
                  /\ handler.called[2] = [fn |-> "transitionIssue",
                                          id |-> handler.transitions[k].id]
        ELSE /\ CallsOf("transitionIssue") = {}
             /\ handler.pc = "rejected"
             /\ handler.outcome.origin = "handler"
             /\ \A k \in DOMAIN handler.transitions :
                  includes(handler.outcome.payload,
                           <<"\"">> \o handler.transitions[k].name
                           \o <<"\"", " ", "(", "i", "d", ":", " ">>
                           \o handler.transitions[k].id \o <<")">>)

\* the status "done" has made the handler call transitionIssue with the id
\* of the second transition, named "Done"
C25_Witness ==
  /\ handler.pc = "resolved"
  /\ handler.status = <<"d", "o", "n", "e">>
  /\ Len(handler.transitions) = 2
  /\ handler.transitions[2].name = <<"D", "o", "n", "e">>
  /\ handler.called = <<[fn |-> "getTransitions", id |-> <<>>],
                        [fn |-> "transitionIssue", id |-> <<"3", "1">>]>>

\* no transition matches "Closed": the handler has failed with the list
C25_WitnessNoMatch ==
  /\ handler.pc = "rejected"
  /\ handler.outcome.origin = "handler"
  /\ Len(handler.transitions) = 2
  /\ handler.called = <<[fn |-> "getTransitions", id |-> <<>>]>>

\* the resolveFieldId / assertFieldId activations that were started
Started == {r \in Resolutions : fieldService.resolutions[r].pc # "idle"}

\* the id config.fieldMapping holds for the logical name of the activation
ConfiguredId(r) ==
  fieldService.config.fieldMapping[fieldService.resolutions[r].logicalName]

\* C26: when fieldMapping holds an id for the logical field, resolveFieldId
\* returns that id, whatever the catalog holds, and the resolution does not
\* call client.listFields: it does not ask for the fields at all
C26_ConfiguredIdWins ==
  \A r \in Started :
    truthy(ConfiguredId(r)) =>
      /\ fieldService.resolutions[r].pc = "done"
      /\ fieldService.resolutions[r].outcome.kind = "resolved"
      /\ fieldService.resolutions[r].outcome.payload = ConfiguredId(r)
      /\ fieldService.resolutions[r].getFields = "-"

\* a resolution returned the configured id while the cached catalog holds a
\* field that discovery would have resolved the logical name to, of another id
C26_Witness ==
  \E r \in Started :
    /\ truthy(ConfiguredId(r))
    /\ fieldService.resolutions[r].pc = "done"
    /\ fieldService.resolutions[r].outcome.payload = ConfiguredId(r)
    /\ ~fieldService.cachedFields.isNull
    /\ truthy(discoverFieldId(fieldService.cachedFields.fields, fieldService.config,
                              fieldService.resolutions[r].logicalName))
    /\ discoverFieldId(fieldService.cachedFields.fields, fieldService.config,
                       fieldService.resolutions[r].logicalName) # ConfiguredId(r)
    /\ fieldService.listFieldsCalls = 1

\* the activations that are done and had no configured id to return
Discovered ==
  {r \in Started : fieldService.resolutions[r].pc = "done" /\ ~truthy(ConfiguredId(r))}

\* the field is the candidate, by name or by id, letter case aside
IsCandidate(field, candidate) ==
  \/ toLowerCase(field.name) = toLowerCase(candidate)
  \/ toLowerCase(field.id) = toLowerCase(candidate)

\* the id of the first field of the catalog that satisfies the first entry
\* of the list (candidates or patterns) that any field satisfies; no id
\* when no field satisfies any entry
FirstInPriorityOrder(fields, list, Satisfies(_, _)) ==
  LET hits == {i \in DOMAIN list : \E k \in DOMAIN fields : Satisfies(fields[k], list[i])}
  IN IF hits = {} THEN undefinedString
     ELSE fields[Min({k \in DOMAIN fields : Satisfies(fields[k], list[Min(hits)])})].id

\* the pattern matches the name of the field
NameMatches(field, pattern) == test(pattern, field.name)

\* C27: with no configured mapping, resolveFieldId returns the id of the
\* first catalog field that is a candidate by name or by id, letter case
\* aside, the candidates (configured, or the built-in ones) tried in their
\* order; when no field is a candidate, the id of the first field whose name
\* matches a pattern of the logical field, the patterns tried in their order;
\* and undefined when there is neither
C27_DiscoveryOrder ==
  \A r \in Discovered :
    LET res == fieldService.resolutions[r]
        candidates == getCandidatesForField(fieldService.config, res.logicalName)
        patterns == getPatternsForField(res.logicalName)
        byCandidate == FirstInPriorityOrder(res.fields, candidates, IsCandidate)
        byPattern == FirstInPriorityOrder(res.fields, patterns, NameMatches)
    IN res.method = "resolveFieldId" =>
         /\ res.outcome.kind = "resolved"
         /\ res.outcome.payload =
              IF byCandidate # undefinedString THEN byCandidate ELSE byPattern

\* "Acceptance Criteria" resolves by its name, though a field named by a
\* later candidate and a field only the pattern matches come first in the
\* catalog
C27_Witness ==
  \E r \in Discovered :
    /\ fieldService.resolutions[r].method = "resolveFieldId"
    /\ fieldService.resolutions[r].logicalName = "acceptance"
    /\ fieldService.resolutions[r].fields =
         <<AcceptanceField, UatField, AcceptanceCriteriaField>>
    /\ fieldService.resolutions[r].outcome.payload = AcceptanceCriteriaField.id

\* "UAT Acceptance Notes" resolves by the pattern when no field is a candidate
C27_WitnessPattern ==
  \E r \in Discovered :
    /\ fieldService.resolutions[r].method = "resolveFieldId"
    /\ fieldService.resolutions[r].logicalName = "acceptance"
    /\ fieldService.resolutions[r].fields = <<UatField, CustomAcceptanceField>>
    /\ fieldService.config.acceptanceFieldCandidates = undefinedList
    /\ fieldService.resolutions[r].outcome.payload = UatField.id

\* nothing in the catalog is a candidate or matches: undefined
C27_WitnessUndefined ==
  \E r \in Discovered :
    /\ fieldService.resolutions[r].method = "resolveFieldId"
    /\ fieldService.resolutions[r].fields = <<UnrelatedField>>
    /\ fieldService.resolutions[r].outcome.payload = undefinedString

\* C28: on one FieldService instance client.listFields is called at most
\* once between construction, or the last clearCache, and the next
\* clearCache, however the resolveFieldId / assertFieldId calls follow or
\* overlap each other and whatever the fetch gave
C28_FetchedOncePerInstance == fieldService.listFieldsCalls <= 1

\* C28, second part: with the cache cleared (or never filled), a resolution
\* that needs the catalog calls client.listFields
C28_ClearedCacheRefetches ==
  [][\A r \in Resolutions :
       (/\ fieldService.constructed
        /\ fieldService.cachedFields.isNull
        /\ fieldService.client.present
        /\ fieldService'.started = fieldService.started + 1
        /\ fieldService'.resolutions[r] # fieldService.resolutions[r]
        /\ ~truthy(fieldService.config.fieldMapping[fieldService'.resolutions[r].logicalName]))
       => /\ fieldService'.listFieldsCalls = fieldService.listFieldsCalls + 1
          /\ fieldService'.resolutions[r].pc = "listFields"]_vars

\* the fetch of one resolution failed, and a later resolution fetched again
\* with no clearCache since
C28_Witness ==
  \E r, q \in Resolutions :
    /\ fieldService.resolutions[r].pc = "done"
    /\ fieldService.resolutions[r].getFields = "rejected"
    /\ fieldService.resolutions[q].pc = "listFields"
    /\ fieldService.listFieldsCalls = 2

\* two resolutions overlap, and each has called client.listFields
C28_WitnessOverlap ==
  /\ \A r \in Resolutions : fieldService.resolutions[r].pc = "listFields"
  /\ fieldService.listFieldsCalls = 2

\* the activations whose catalog fetch failed: client.listFields rejected
FetchFailed ==
  {r \in Started : fieldService.resolutions[r].pc = "done"
                   /\ fieldService.resolutions[r].getFields = "rejected"}

\* C29: when client.listFields rejects, the error of the fetch does not
\* reach the caller: resolveFieldId resolves to undefined, for every logical
\* field without a configured id, and assertFieldId rejects with an AppError
\* of code VALIDATION_ERROR
C29_FetchFailureSwallowed ==
  \A r \in FetchFailed :
    LET res == fieldService.resolutions[r]
    IN /\ res.method = "resolveFieldId" =>
            /\ res.outcome.kind = "resolved"
            /\ res.outcome.payload = undefinedString
       /\ res.method = "assertFieldId" =>
            /\ res.outcome.kind = "rejected"
            /\ isAppError(res.outcome.payload)
            /\ res.outcome.payload.code = "VALIDATION_ERROR"
            /\ res.outcome.payload # HandlerRejection

\* a resolveFieldId activation resolved to undefined after its fetch failed
C29_Witness ==
  \E r \in FetchFailed :
    /\ fieldService.resolutions[r].method = "resolveFieldId"
    /\ fieldService.resolutions[r].outcome.kind = "resolved"
    /\ fieldService.resolutions[r].outcome.payload = undefinedString

\* an assertFieldId activation rejected with the validation error after its
\* fetch failed
C29_WitnessAssert ==
  \E r \in FetchFailed :
    /\ fieldService.resolutions[r].method = "assertFieldId"
    /\ fieldService.resolutions[r].outcome.kind = "rejected"
    /\ fieldService.resolutions[r].outcome.payload.code = "VALIDATION_ERROR"
    /\ fieldService.resolutions[r].outcome.payload.context =
         fieldService.resolutions[r].logicalName

\* the payloads createIssue / updateIssue gave to the client
PayloadsSent ==
  {issueService.called[n].fields :
     n \in {m \in DOMAIN issueService.called :
              issueService.called[m].fn \in {"createIssue", "updateIssue"}}}

\* C30: customFields are merged last into the payload of createIssue and of
\* updateIssue: every key of input.customFields is in the payload with the
\* value customFields gives it, whatever a named field or a resolved
\* acceptance / epic / storyPoints field of that key was given
C30_CustomFieldsMergedLast ==
  \A payload \in PayloadsSent :
    issueService.input.customFields.defined =>
      \A key \in DOMAIN issueService.input.customFields.entries :
        /\ key \in DOMAIN payload
        /\ payload[key] = issueService.input.customFields.entries[key]

\* a createIssue payload in which the customFields value stands under the id
\* the acceptance field was resolved to, the input having an acceptance text
C30_Witness ==
  /\ issueService.method = "createIssue"
  /\ PayloadsSent # {}
  /\ truthyValue(issueService.input.acceptance)
  /\ issueService.fieldMap.acceptance = AcceptanceFieldId
  /\ issueService.input.customFields.defined
  /\ AcceptanceFieldId \in DOMAIN issueService.input.customFields.entries
  /\ \A payload \in PayloadsSent : payload[AcceptanceFieldId] = CustomValue

\* an updateIssue payload in which the customFields value stands under the
\* key of a named field the update sets
C30_WitnessUpdate ==
  /\ issueService.method = "updateIssue"
  /\ PayloadsSent # {}
  /\ issueService.input.summary # undefinedValue
  /\ issueService.input.customFields.defined
  /\ DOMAIN issueService.input.customFields.entries = {<<"s", "u", "m", "m", "a", "r", "y">>}
  /\ \A payload \in PayloadsSent : payload[<<"s", "u", "m", "m", "a", "r", "y">>] = CustomValue

(* ------------------- the creation fallback protocol ---------------------- *)

\* the createIssue calls handleJiraCreate has made
CreateIssueCalls == Len(creation.payloads)

\* handleJiraCreate has returned an issue / has thrown
CreationReturned == creation.pc = "done" /\ creation.outcome.kind = "resolved"
CreationThrew == creation.pc = "done" /\ creation.outcome.kind = "rejected"

\* C31: an invocation of the creation protocol calls createIssue at most
\* three times; it returns the issue as soon as an attempt succeeds, making
\* no further call; and when it throws after attempts were made, the error is
\* the one of the attempt made last.
C31_AtMostThreeAttempts ==
  /\ CreateIssueCalls <= CreateAttempts
  /\ creation.pc = "createIssue" => CreateIssueCalls = Len(creation.errors) + 1
  /\ CreationReturned =>
       /\ CreateIssueCalls = creation.attempt
       /\ Len(creation.errors) = creation.attempt - 1
  /\ CreationThrew /\ CreateIssueCalls > 0 =>
       /\ Len(creation.errors) = CreateIssueCalls
       /\ creation.outcome.payload = creation.errors[CreateIssueCalls]
       /\ creation.outcome.payload.number = CreateIssueCalls

\* C31: once handleJiraCreate is done, it calls createIssue no more.
C31_Lemma_DoneIsFinal ==
  [][creation.pc = "done" => creation' = creation]_vars

\* the third attempt is rejected and its error is thrown
C31_Witness ==
  /\ CreationThrew
  /\ CreateIssueCalls = CreateAttempts
  /\ creation.outcome.payload.number = CreateAttempts

\* the second attempt succeeds after a rejection of the first
C31_WitnessReturns ==
  /\ CreationReturned
  /\ CreateIssueCalls = 2
  /\ Len(creation.errors) = 1

\* the error of the createIssue call that a step has seen rejected
LastError(c) == c.errors[Len(c.errors)]

\* a step in which a createIssue call is rejected
AttemptRejected ==
  /\ creation.pc = "createIssue"
  /\ Len(creation'.errors) = Len(creation.errors) + 1

\* the error names the field in errors{}
Names(error, fieldId) == fieldId \in DOMAIN error.errors

\* a message of the error, of the field or general, asks for a string
AsksForString(error, fieldId) ==
  \/ Names(error, fieldId) /\ stringValueExpected(error.errors[fieldId])
  \/ \E i \in DOMAIN error.errorMessages : stringValueExpected(error.errorMessages[i])

\* the rejection leaves nothing to adjust: the acceptance field sent is not
\* rejected, the epic field sent is not rejected, and no string is asked for
\* an epic key sent as an object
NothingToAdjust(c, error) ==
  /\ ~(c.includeAcceptance /\ Names(error, c.acceptanceFieldId))
  /\ ~(c.includeEpic /\ Names(error, c.epicFieldId))
  /\ ~(c.includeEpic /\ ~c.epicAsString /\ AsksForString(error, c.epicFieldId))

\* C32: when a rejected attempt leaves nothing to adjust, the error is thrown
\* at once and createIssue is not called again, whatever the number of
\* attempts made.
C32_NoAdjustmentRaisesAtOnce ==
  [][AttemptRejected /\ NothingToAdjust(creation, LastError(creation'))
       => /\ creation'.pc = "done"
          /\ creation'.outcome = Rejected("createIssue", LastError(creation'))
          /\ creation'.payloads = creation.payloads]_vars

\* the first attempt, with acceptance criteria and an epic in its payload, is
\* rejected for its issue type, and the error is thrown with two attempts left
C32_Witness ==
  /\ CreationThrew
  /\ CreateIssueCalls = 1
  /\ creation.includeAcceptance /\ creation.includeEpic
  /\ LastError(creation).response
  /\ Names(LastError(creation), IssueTypeKey)
  /\ NothingToAdjust(creation, LastError(creation))

\* a request that did not get through is thrown at once
C32_WitnessNoResponse ==
  /\ CreationThrew
  /\ CreateIssueCalls = 2
  /\ ~LastError(creation).response

\* the payload of the createIssue call made last
LastPayload(c) == c.payloads[Len(c.payloads)]

\* a step in which a createIssue call is rejected and the next one is made
NextAttemptMade == AttemptRejected /\ creation'.pc = "createIssue"

\* the acceptance field candidates the payload has as keys
AcceptanceFieldsIn(c, payload) ==
  {c.acceptanceFieldCandidates[i] : i \in DOMAIN c.acceptanceFieldCandidates}
  \cap DOMAIN payload

\* the acceptance field of the payload sent is rejected
AcceptanceFieldRejected ==
  /\ AttemptRejected
  /\ creation.includeAcceptance
  /\ Names(LastError(creation'), creation.acceptanceFieldId)

\* what C33 says of the attempt after the rejection of an acceptance field:
\* the next candidate and not the rejected id, or no acceptance field
NextAcceptanceCandidateUsed ==
  AcceptanceFieldRejected /\ NextAttemptMade =>
    IF creation.acceptanceFieldIndex + 1 < Len(creation.acceptanceFieldCandidates)
    THEN /\ AcceptanceFieldsIn(creation, LastPayload(creation')) =
              {creation.acceptanceFieldCandidates[creation.acceptanceFieldIndex + 2]}
         /\ creation.acceptanceFieldId \notin DOMAIN LastPayload(creation')
    ELSE AcceptanceFieldsIn(creation, LastPayload(creation')) = {}

\* C33: when the server rejects the current acceptance field candidate, the
\* next attempt uses the next candidate of the priority order and its payload
\* no longer has the rejected field id; after the last candidate the payload
\* has no acceptance field.
C33_RejectedAcceptanceFieldLeaves == [][NextAcceptanceCandidateUsed]_vars

\* no id is twice among the acceptance field candidates
DistinctAcceptanceCandidates(c) ==
  \A i, j \in DOMAIN c.acceptanceFieldCandidates :
     c.acceptanceFieldCandidates[i] = c.acceptanceFieldCandidates[j] => i = j

\* C33, for candidates that are all different: the statement holds.
C33_Lemma_DistinctCandidates ==
  [][DistinctAcceptanceCandidates(creation) => NextAcceptanceCandidateUsed]_vars

\* the acceptance field of the first attempt was rejected, and the payload of
\* the second attempt has the same field id again
C33_Witness ==
  /\ Len(creation.payloads) >= 2
  /\ creation.acceptanceFieldCandidates[1] \in DOMAIN creation.payloads[1]
  /\ Names(creation.errors[1], creation.acceptanceFieldCandidates[1])
  /\ creation.acceptanceFieldCandidates[1] \in DOMAIN creation.payloads[2]

\* with different candidates: the second attempt has the second candidate
\* and not the first
C33_WitnessNextCandidate ==
  /\ Len(creation.payloads) >= 2
  /\ Len(creation.acceptanceFieldCandidates) >= 2
  /\ DistinctAcceptanceCandidates(creation)
  /\ Names(creation.errors[1], creation.acceptanceFieldCandidates[1])
  /\ creation.acceptanceFieldCandidates[2] \in DOMAIN creation.payloads[2]
  /\ creation.acceptanceFieldCandidates[1] \notin DOMAIN creation.payloads[2]

\* the only candidate was rejected: the second attempt has no acceptance field
C33_WitnessDropped ==
  /\ Len(creation.payloads) >= 2
  /\ Len(creation.acceptanceFieldCandidates) = 1
  /\ Names(creation.errors[1], creation.acceptanceFieldCandidates[1])
  /\ AcceptanceFieldsIn(creation, creation.payloads[2]) = {}

\* the only objection of the server to attempt i is the acceptance field of
\* its payload
OnlyAcceptanceObjection(c, i) ==
  /\ c.errors[i].response
  /\ c.errors[i].errorMessages = <<>>
  /\ DOMAIN c.errors[i].errors # {}
  /\ DOMAIN c.errors[i].errors = AcceptanceFieldsIn(c, c.payloads[i])

\* handleJiraCreate has thrown, and all the server objected to in any attempt
\* was the acceptance field sent
FailedForAcceptanceFieldOnly ==
  /\ CreationThrew
  /\ CreateIssueCalls > 0
  /\ \A i \in DOMAIN creation.errors : OnlyAcceptanceObjection(creation, i)

\* C34: creation never fails because of the acceptance field alone: with any
\* number of acceptance field candidates, when the acceptance field is all
\* the server objects to, handleJiraCreate does not end by throwing.
C34_NeverFailsForAcceptanceField == ~FailedForAcceptanceFieldOnly

\* C34, for one or two candidates: the statement holds.
C34_Lemma_TwoCandidatesCreate ==
  Len(creation.acceptanceFieldCandidates) <= 2 => ~FailedForAcceptanceFieldOnly

\* three different candidates were rejected one after the other, and the
\* rejection of the third is thrown
C34_Witness ==
  /\ FailedForAcceptanceFieldOnly
  /\ CreateIssueCalls = CreateAttempts
  /\ DistinctAcceptanceCandidates(creation)
  /\ \A i \in 1..CreateAttempts :
        DOMAIN creation.errors[i].errors = {creation.acceptanceFieldCandidates[i]}

\* two candidates were rejected and the third attempt, without acceptance
\* criteria, created the issue
C34_WitnessCreated ==
  /\ CreationReturned
  /\ CreateIssueCalls = CreateAttempts
  /\ Len(creation.acceptanceFieldCandidates) = 2
  /\ \A i \in DOMAIN creation.errors : OnlyAcceptanceObjection(creation, i)
  /\ AcceptanceFieldsIn(creation, LastPayload(creation)) = {}

\* the epic field candidates the payload has as keys
EpicFieldsIn(c, payload) ==
  {c.epicFieldCandidates[i] : i \in DOMAIN c.epicFieldCandidates} \cap DOMAIN payload

\* what C35 says of the attempt after a rejection, for an epic link sent:
\* the same field with the key as a string when a string is asked for a key
\* sent as an object; for another rejection of the epic field the next
\* candidate, or no epic link; and the same epic link when the epic field is
\* not objected to
EpicAdjustedAsStated ==
  NextAttemptMade /\ creation.includeEpic =>
    LET error == LastError(creation')
        id == creation.epicFieldId
        payload == LastPayload(creation')
    IN  IF ~creation.epicAsString /\ AsksForString(error, id)
        THEN /\ EpicFieldsIn(creation, payload) = {id}
             /\ payload[id] = String(creation.epicKey)
             /\ creation'.epicFieldIndex = creation.epicFieldIndex
        ELSE IF Names(error, id)
        THEN IF creation.epicFieldIndex + 1 < Len(creation.epicFieldCandidates)
             THEN /\ creation'.epicFieldIndex = creation.epicFieldIndex + 1
                  /\ EpicFieldsIn(creation, payload) =
                       {creation.epicFieldCandidates[creation.epicFieldIndex + 2]}
             ELSE EpicFieldsIn(creation, payload) = {}
        ELSE /\ EpicFieldsIn(creation, payload) = {id}
             /\ payload[id] = LastPayload(creation)[id]

\* the flags after the rejection, whether another attempt follows or not: a
\* rejection of the last epic candidate, with no string to try, ends the
\* sending of the epic link
EpicDroppedAsStated ==
  /\ AttemptRejected
  /\ creation.includeEpic
  /\ Names(LastError(creation'), creation.epicFieldId)
  /\ creation.epicAsString \/ ~AsksForString(LastError(creation'), creation.epicFieldId)
  /\ creation.epicFieldIndex + 1 = Len(creation.epicFieldCandidates)
  => ~creation'.includeEpic

\* C35: when the epic key was sent as a {key} object and the rejection of the
\* epic field, or a general message, matches /string value expected/i, the
\* next attempt sends the same epic field with the key as a bare string and
\* does not go to another candidate; any other rejection of the current epic
\* field goes to the next candidate, or drops the epic link after the last.
C35_EpicStringThenNextCandidate == [][EpicAdjustedAsStated /\ EpicDroppedAsStated]_vars

\* the key went as an object, a general message asked for a string, and the
\* second attempt has the same field with the key as a string
C35_Witness ==
  /\ Len(creation.payloads) >= 2
  /\ creation.epicFieldCandidates[1] \in DOMAIN creation.payloads[1]
  /\ creation.payloads[1][creation.epicFieldCandidates[1]] = KeyObject(creation.epicKey)
  /\ creation.errors[1].errors = <<>>
  /\ creation.errors[1].errorMessages = <<GeneralStringValueExpected>>
  /\ creation.payloads[2][creation.epicFieldCandidates[1]] = String(creation.epicKey)

\* the key went as a string and the field was rejected: the second attempt
\* has the second candidate, and the key as an object as that field is not
\* among the string fields
C35_WitnessNextCandidate ==
  /\ Len(creation.payloads) >= 2
  /\ creation.epicFieldCandidates[1] \in DOMAIN creation.payloads[1]
  /\ creation.payloads[1][creation.epicFieldCandidates[1]] = String(creation.epicKey)
  /\ Names(creation.errors[1], creation.epicFieldCandidates[1])
  /\ creation.epicFieldCandidates[1] \notin DOMAIN creation.payloads[2]
  /\ creation.epicFieldCandidates[2] \in DOMAIN creation.payloads[2]
  /\ creation.payloads[2][creation.epicFieldCandidates[2]] = KeyObject(creation.epicKey)

\* the last epic candidate was rejected: the epic link is dropped
C35_WitnessDropped ==
  /\ creation.epicKey # undefinedString
  /\ ~creation.includeEpic
  /\ Names(LastError(creation), creation.epicFieldId)
  /\ creation.epicFieldIndex + 1 = Len(creation.epicFieldCandidates)

\* attempts i and i + 1 sent the same payload
SamePayloadAgain(c, i) == c.payloads[i] = c.payloads[i + 1]

\* C40: every retry of handleJiraCreate makes progress: no two consecutive
\* createIssue attempts of one call send the same fields payload, whatever
\* the override, the variables and the lists of field candidates are.
C40_NoPayloadSentTwiceInARow ==
  \A i \in 1..(Len(creation.payloads) - 1) : ~SamePayloadAgain(creation, i)

\* no id is twice among the epic field candidates
DistinctEpicCandidates(c) ==
  \A i, j \in DOMAIN c.epicFieldCandidates :
     c.epicFieldCandidates[i] = c.epicFieldCandidates[j] => i = j

\* C40, for candidate lists without a repeated id: the statement holds.
C40_Lemma_DistinctCandidates ==
  DistinctAcceptanceCandidates(creation) /\ DistinctEpicCandidates(creation)
    => C40_NoPayloadSentTwiceInARow

\* the first payload was rejected for its acceptance field and the second
\* attempt sent the same payload
C40_Witness ==
  /\ Len(creation.payloads) >= 2
  /\ SamePayloadAgain(creation, 1)
  /\ Names(creation.errors[1], creation.acceptanceFieldCandidates[1])
  /\ creation.acceptanceFieldCandidates[1] \in DOMAIN creation.payloads[1]

\* the same with the epic field: rejected, and sent again as it was
C40_WitnessEpic ==
  /\ Len(creation.payloads) >= 2
  /\ SamePayloadAgain(creation, 1)
  /\ Names(creation.errors[1], creation.epicFieldCandidates[1])
  /\ creation.epicFieldCandidates[1] \in DOMAIN creation.payloads[1]
  /\ AcceptanceFieldsIn(creation, creation.payloads[1]) = {}

(* --------------------- the breaker around the retrier -------------------- *)

\* the error is retryable to the client of the service
RetryableTo(service, error) ==
  IF service = "jira" THEN isRetryableJiraError(error) ELSE isRetryableConfluenceError(error)

\* every raw call of the operation was rejected with a retryable error
EveryAttemptFailedRetryably(c) ==
  /\ c.raw # <<>>
  /\ \A i \in DOMAIN c.raw :
        c.raw[i].kind = "rejected" /\ RetryableTo(c.service, c.raw[i].value)

\* the circuit of the client's operation
ClientCircuit == objects[client.circuit]

\* a raw call has failed and the operation goes on to its next attempt: the
\* breaker is not told
AttemptLeavesCircuit ==
  client.pc = "running" /\ client'.pc = "running" => objects' = objects

\* the operation ends with every raw call having failed retryably: the raw
\* call was made maxAttempts times, failureCount is one more, and a closed
\* circuit opens when that is the fifth failure
OperationCountsOnce ==
  client.pc = "running" /\ client'.pc = "settled" /\ EveryAttemptFailedRetryably(client')
    => /\ Len(client'.raw) = DEFAULT_MAX_ATTEMPTS
       /\ objects'[client.circuit].failureCount = ClientCircuit.failureCount + 1
       /\ ClientCircuit.state = "closed" =>
            objects'[client.circuit].state =
              IF ClientCircuit.failureCount + 1 >= DEFAULT_FAILURE_THRESHOLD
              THEN "open" ELSE "closed"

\* an operation called on a circuit that stays open makes no raw call, and
\* no raw call is outstanding on an open circuit
OpenMakesNoRawCall ==
  /\ (/\ client.pc \in {"idle", "settled"}
      /\ client' # client
      /\ objects'[client'.circuit].state = "open")
     => client'.pc = "settled" /\ client'.raw = <<>>
  /\ client'.pc = "running" => objects'[client'.circuit].state # "open"

\* C36: the breaker wraps the retrier: a client operation whose raw call
\* fails with a retryable error on every attempt makes the raw call exactly
\* maxAttempts (3) times and raises failureCount by exactly 1, so the circuit
\* opens with the fifth such operation; and an operation on an open circuit
\* makes no raw call.
C36_OneFailurePerOperation ==
  [][AttemptLeavesCircuit /\ OperationCountsOnce /\ OpenMakesNoRawCall]_vars

\* the fifth operation in a row has failed on each of its three raw calls,
\* and the circuit is open with five failures
C36_Witness ==
  /\ client.pc = "settled"
  /\ client.outcome.kind = "rejected"
  /\ client.outcome.origin = "fn"
  /\ EveryAttemptFailedRetryably(client)
  /\ Len(client.raw) = DEFAULT_MAX_ATTEMPTS
  /\ ClientCircuit.state = "open"
  /\ ClientCircuit.failureCount = DEFAULT_FAILURE_THRESHOLD

\* an operation was refused by the open circuit, with no raw call
C36_WitnessRefused ==
  /\ client.pc = "settled"
  /\ client.outcome.kind = "rejected"
  /\ client.outcome.origin = "breaker"
  /\ client.raw = <<>>
  /\ ClientCircuit.state = "open"

(* --------------------- the time of the last failure ---------------------- *)

\* a step in which activation c settles with a tripping failure: failureCount
\* of its circuit goes up by one
TrippingFailureOf(c) ==
  /\ calls[c].pc = "awaiting"
  /\ calls'[c].pc # "awaiting"
  /\ objects'[calls[c].circuit].failureCount = objects[calls[c].circuit].failureCount + 1

\* C37: the lastFailureTime recorded for a tripping failure is the time at
\* which the rejection of fn was observed, also when fn took time or calls
\* overlapped.
C37_LastFailureTimeIsObservationTime ==
  [][\A c \in Calls :
       TrippingFailureOf(c) => objects'[calls[c].circuit].lastFailureTime = Now]_vars

\* C37, second part: lastFailureTime never decreases.
C37_LastFailureTimeNeverDecreases ==
  [][\A o \in ObjIds :
       objects[o].state # "free" /\ objects'[o].state # "free"
         => objects'[o].lastFailureTime >= objects[o].lastFailureTime]_vars

\* C37, for a fn that rejects at the time it was called: the time recorded
\* is the time of the rejection.
C37_Lemma_InstantFailure ==
  [][\A c \in Calls :
       TrippingFailureOf(c) /\ calls[c].now = Now
         => objects'[calls[c].circuit].lastFailureTime = Now]_vars

\* the circuit was closed when an activation, still suspended, was called,
\* and is open now: the failure that opened it was observed after that call,
\* and the lastFailureTime recorded for it is earlier than the call
C37_Witness ==
  \E c \in Calls :
    /\ calls[c].pc = "awaiting"
    /\ calls[c].arrivedIn = "closed"
    /\ objects[calls[c].circuit].state = "open"
    /\ objects[calls[c].circuit].lastFailureTime < calls[c].now

(* ------------------- a closed circuit and the threshold ------------------ *)

\* C38: with the same options on every call of a service, under any
\* interleaving of concurrent calls, a closed circuit has
\* failureCount < failureThreshold.
C38_ClosedBelowThreshold ==
  \A s \in Services :
    circuits[s] # NoCircuit /\ objects[circuits[s]].state = "closed"
      => objects[circuits[s]].failureCount < FixedOptions(s).failureThreshold

\* C38: the failure that brings failureCount of a closed circuit to the
\* threshold opens the circuit in the same step.
C38_Lemma_OpensInTheSameStep ==
  [][\A s \in Services :
       /\ circuits[s] # NoCircuit
       /\ objects[circuits[s]].state = "closed"
       /\ objects'[circuits[s]].failureCount = objects[circuits[s]].failureCount + 1
       /\ objects'[circuits[s]].failureCount >= FixedOptions(s).failureThreshold
       => objects'[circuits[s]].state = "open"]_vars

\* two calls are in flight on a closed circuit that is one failure below its
\* threshold
C38_Witness ==
  \E s \in Services :
    /\ circuits[s] # NoCircuit
    /\ objects[circuits[s]].state = "closed"
    /\ objects[circuits[s]].failureCount = FixedOptions(s).failureThreshold - 1
    /\ \A c \in Calls : calls[c].pc = "awaiting" /\ calls[c].circuit = circuits[s]

\* both of two concurrent calls have failed: the count is past the threshold
\* and the circuit is open
C38_WitnessPastThreshold ==
  \E s \in Services :
    /\ circuits[s] # NoCircuit
    /\ objects[circuits[s]].state = "open"
    /\ objects[circuits[s]].failureCount > FixedOptions(s).failureThreshold

(* ------------------- stale calls in a half-open episode ------------------ *)

\* a step in which activation c, admitted while its circuit was closed,
\* settles while the circuit is half-open
StaleCallSettlesInHalfOpen(c) ==
  /\ calls[c].pc = "awaiting"
  /\ calls'[c].pc # "awaiting"
  /\ calls[c].arrivedIn = "closed"
  /\ objects[calls[c].circuit].state = "half-open"

\* C39: only a call admitted as a half-open trial decides a half-open
\* episode: a call admitted while the circuit was closed that resolves or
\* rejects after the circuit went open and then half-open neither closes
\* nor re-opens the circuit.
C39_StaleCallLeavesEpisode ==
  [][\A c \in Calls :
       StaleCallSettlesInHalfOpen(c) => objects'[calls[c].circuit].state = "half-open"]_vars

\* C39, for a stale call that rejects with an error shouldTrip declines: the
\* circuit stays half-open.
C39_Lemma_NonTrippingStaleFailure ==
  [][\A c \in Calls :
       /\ StaleCallSettlesInHalfOpen(c)
       /\ settled'.fnOutcome.kind = "rejected"
       /\ ~shouldTrip(calls[c], settled'.fnOutcome.payload)
       => objects'[calls[c].circuit].state = "half-open"]_vars

\* a call admitted while the circuit was closed has resolved, the trial of
\* the half-open episode is still suspended, and the circuit is closed
C39_Witness ==
  \E c \in Calls :
    /\ calls[c].pc = "awaiting"
    /\ calls[c].arrivedIn \in {"open", "half-open"}
    /\ objects[calls[c].circuit].state = "closed"
    /\ settled.arrivedIn = "closed"
    /\ settled.fnOutcome.kind = "resolved"

\* the same with a stale call that rejected: the circuit is open again under
\* the suspended trial
C39_WitnessReopened ==
  \E c \in Calls :
    /\ calls[c].pc = "awaiting"
    /\ calls[c].arrivedIn \in {"open", "half-open"}
    /\ objects[calls[c].circuit].state = "open"
    /\ settled.arrivedIn = "closed"
    /\ settled.fnOutcome.kind = "rejected"

====
